---- MODULE Spec2Model ----
(***************************************************************************)
(* Arcani intranet bot: the security-request lifecycle.                    *)
(*                                                                         *)
(* The persistent stores (ServerConfigs, ExternalServers, SecurityRequests)*)
(* are modelled as tables, the two rendered views of a request as message  *)
(* records, and every asynchronous command or handler as an execution in   *)
(* flight whose steps are its awaited database and platform calls: a step  *)
(* holds one read or one write of a table or a message, and what the code  *)
(* keeps between two awaits is kept in the record of the execution.  A     *)
(* Sequelize instance is a snapshot of the row it was read from; save()    *)
(* writes back only the attributes whose value differs from the snapshot.  *)
(***************************************************************************)
EXTENDS Integers, Sequences, FiniteSets, TLC

(* ------------------------------ bounds -------------------------------- *)

\* Number of clock advances explored.
MaxTicks == 3

\* Number of requests (interaction ids) filed in one run.
MaxRequests == 1

(* --------------------------- program constants ------------------------ *)

INACTIVITY_THRESHOLD_DAYS == 30

(* ------------------------------ universe ------------------------------ *)

\* Days added by one clock advance: two advances reach the threshold exactly,
\* three pass it.
TickDays == INACTIVITY_THRESHOLD_DAYS \div 2

MaxTime == MaxTicks * TickDays

\* process.env.GUILD_ID, the organization server.
MainGuild == "main"

\* Customer servers.
Guilds == {"g1", "g2"}

\* The customer server whose members file requests.
FilingGuilds == {"g1"}

\* Channels of a customer server.
Channels == {"c1", "c2"}

\* Roles of a customer server that the allow-list may name.
GuildRoles == {"role1"}

\* Members of the organization server who press buttons.
Actors == {"a1", "a2"}

\* The member of the customer server who files requests and runs its
\* commands.
Requester == "u1"

\* The member of the organization server who runs its commands.
Admin == "admin"

Members == Actors \cup {Requester, Admin}

\* Button and form handlers that can be in flight at once.
Handlers == {1, 2}

\* Command executions, other than the external filing, that can be in flight
\* at once.
Commands == {1, 2}

\* Role and channel ids a configuration command can supply.
ManagerRole == "mgrRole"
SecurityRole == "secRole"
CustomerRole == "custRole"
AlertChannel == "alerts"

\* Free-text conclusion reasons.
Reasons == {"resolved", "again"}

RequestIds == 1..MaxRequests

\* A nullable attribute is the empty set (null) or a singleton.
Null == {}
Some(v) == {v}
Populated(x) == x # Null

(* ------------------- JSON text in a TEXT column ----------------------- *)
\* A JavaScript value that is an array, or a string holding JSON text, is
\* [enc |-> n, arr |-> s]: the array s under n layers of JSON.stringify.
\* enc = 0 is the array itself; enc >= 1 is a string.

JSArray(s) == [enc |-> 0, arr |-> s]

JSONstringify(v) == [enc |-> v.enc + 1, arr |-> v.arr]

JSONparse(s) == [enc |-> s.enc - 1, arr |-> s.arr]

IsString(v) == v.enc >= 1

IsArray(v) == v.enc = 0

\* A column that was never written.
NullColumn == [enc |-> 0 - 1, arr |-> <<>>]

\* get(): data ? JSON.parse(data) : []
ColumnGet(data) == IF data = NullColumn THEN JSArray(<<>>) ELSE JSONparse(data)

\* set(value): setDataValue(JSON.stringify(value))
ColumnSet(value) == JSONstringify(value)

Includes(s, x) == \E i \in 1..Len(s) : s[i] = x

Filter(s, x) == SelectSeq(s, LAMBDA y : y # x)

(* ------------------------------ state --------------------------------- *)

VARIABLES
    now,        \* the clock, in days
    config,     \* ServerConfigs row of the organization server
    servers,    \* ExternalServers table: guildId -> row
    requests,   \* SecurityRequests table: requestId -> row
    alertMsg,   \* organization alert message of a request
    originMsg,  \* confirmation message in the origin channel of a request
    nextId,     \* next interaction id handed to an accepted request command
    file,       \* the /request-external-security execution in flight
    cmd,        \* the other command executions in flight
    task,       \* the button and form handlers in flight
    prompts,    \* open conclusion forms: <<member, requestId>>
    sweep,      \* the scheduled activity pass in flight
    outcome     \* per member: what the last execution run for them replied

vars == <<now, config, servers, requests, alertMsg, originMsg, nextId, file,
          cmd, task, prompts, sweep, outcome>>

(* ------------------------------ rows ---------------------------------- *)

\* The attributes the ServerConfig model defines.
NoConfig == [exists |-> FALSE, managerRoleId |-> Null, customerRoleId |-> Null,
             securityRoleId |-> Null, alertChannelId |-> Null]

NoServer == [exists |-> FALSE, guildName |-> Null, channelId |-> Null,
             isActive |-> FALSE, isBlacklisted |-> FALSE,
             blacklistReason |-> Null, lastAccessed |-> 0,
             allowedRoleIds |-> NullColumn]

\* SecurityRequest attributes that no handler reads back are kept so that the
\* frame of respond and conclude can be stated.
NoRow == [exists |-> FALSE, requestId |-> 0, isExternal |-> FALSE,
          requesterId |-> Null, requesterName |-> Null,
          location |-> Null, details |-> Null, contact |-> Null,
          externalGuildId |-> Null, externalMessageId |-> Null,
          securityMessageId |-> Null, status |-> "none",
          responders |-> NullColumn, conclusionReason |-> Null,
          concludedById |-> Null, concludedByName |-> Null,
          concludedAt |-> Null]

\* The organization alert: an embed and its row of buttons.
NoAlert == [exists |-> FALSE, external |-> FALSE, title |-> "none",
            responders |-> <<>>, conclusions |-> <<>>, controls |-> FALSE]

\* The confirmation in the origin channel: an embed without buttons, and the
\* channel it was posted in.
NoOrigin == [exists |-> FALSE, channel |-> Null, title |-> "none",
             status |-> "none", names |-> <<>>, conclusion |-> Null,
             concludedBy |-> Null, controls |-> FALSE]

\* What execute of /request-external-security holds between its awaits:
\* channel and roles are interaction.channelId and the roles of the caller,
\* alertChannelId the first configuration value read, server the registration
\* as findByPk returned it, touched and at the instance and the new Date of
\* markServerActive.
IdleFile == [pc |-> "idle", guild |-> MainGuild, channel |-> Null, roles |-> {},
             rid |-> 0, alertChannelId |-> Null, server |-> NoServer,
             touched |-> NoServer, at |-> 0,
             localMessage |-> Null, securityMessage |-> Null]

\* configData of an execution that has none.
NoData == [f \in {} |-> Null]

\* What a command holds between its awaits: data is the configData of
\* updateServerConfig, cfg and row the instances read, col the column value
\* about to be saved, at a new Date, customerRoleId and securityRoleId the
\* configuration values read so far, channel the channel option of
\* /setup-security-channel.
IdleCmd == [kind |-> "none", pc |-> "idle", guild |-> MainGuild, sub |-> "none",
            data |-> NoData, cfg |-> NoConfig, row |-> NoServer,
            col |-> NullColumn, at |-> 0, rid |-> 0, held |-> FALSE,
            customerRoleId |-> Null, securityRoleId |-> Null,
            channel |-> Null]

\* What a button or form handler holds between its awaits: embed is
\* interaction.message.embeds[0], snap the request instance, resps and col the
\* responders computed and the column value about to be saved, server the
\* registration read for the origin update, fetched the origin message as
\* messages.fetch returned it.
IdleTask == [kind |-> "none", pc |-> "idle", actor |-> "none", rid |-> 0,
             held |-> FALSE, route |-> "none", snap |-> NoRow,
             embed |-> NoAlert, resps |-> <<>>, col |-> NullColumn,
             reason |-> Null, at |-> 0, server |-> NoServer,
             fetched |-> NoOrigin]

NoOutcome == [kind |-> "none", rid |-> 0, result |-> "none"]

\* list is what is left of inactiveServers in the loop, updated its length,
\* active the first count once taken.  timers counts the pending
\* setTimeout(updateServerActivity) calls: one is armed at start-up, and a
\* pass rests in "idle" until it fires.
IdleSweep == [pc |-> "idle", list |-> <<>>, updated |-> 0, active |-> 0,
              inactive |-> 0, timers |-> 1]

\* The configuration row migrateServerConfigs creates at start-up when
\* GUILD_ID is set and the table is empty.
StartedConfig == [NoConfig EXCEPT !.exists = TRUE]

Init ==
    /\ now = 0
    /\ config \in {NoConfig, StartedConfig}
    /\ servers = [g \in Guilds |-> NoServer]
    /\ requests = [r \in RequestIds |-> NoRow]
    /\ alertMsg = [r \in RequestIds |-> NoAlert]
    /\ originMsg = [r \in RequestIds |-> NoOrigin]
    /\ nextId = 1
    /\ file = IdleFile
    /\ cmd = [k \in Commands |-> IdleCmd]
    /\ task = [h \in Handlers |-> IdleTask]
    /\ prompts = {}
    /\ sweep = IdleSweep
    /\ outcome = [m \in Members |-> NoOutcome]

(* ------------------------------ clock --------------------------------- *)

Tick ==
    /\ now + TickDays <= MaxTime
    /\ now' = now + TickDays
    /\ UNCHANGED <<config, servers, requests, alertMsg, originMsg, nextId, file,
                   cmd, task, prompts, sweep, outcome>>

\* The outcomes once an execution has told member who its result.
Reply(who, kind, rid, result) ==
    [outcome EXCEPT ![who] = [kind |-> kind, rid |-> rid, result |-> result]]

\* Command slot k takes the next command: slots carry no identity, the lowest
\* idle one is used.
Vacant(k) ==
    /\ cmd[k].pc = "idle"
    /\ \A i \in Commands : i < k => cmd[i].pc # "idle"

\* Command k ends and its caller who is told result.
Done(k, who, result) ==
    /\ cmd' = [cmd EXCEPT ![k] = IdleCmd]
    /\ outcome' = Reply(who, cmd[k].kind, cmd[k].rid, result)

(* ------------------------ Configuration Store ------------------------- *)

\* The keys of configData that are attributes of the model; build() and set()
\* drop the others.
knownAttributes(configData) == DOMAIN configData \cap (DOMAIN NoConfig \ {"exists"})

\* The row findOrCreate inserts: defaults { serverId, ...configData }.
createdConfig(configData) ==
    [f \in DOMAIN NoConfig |->
        IF f = "exists" THEN TRUE
        ELSE IF f \in knownAttributes(configData) THEN configData[f] ELSE Null]

\* config.update(configData) on the instance findOrCreate returned: set() of
\* the known keys, then save() of those keys when one of them differs from
\* the instance, and nothing written when none does.
updatedConfig(row, instance, configData) ==
    IF \E f \in knownAttributes(configData) : instance[f] # configData[f]
    THEN [f \in DOMAIN row |->
            IF f \in knownAttributes(configData) THEN configData[f] ELSE row[f]]
    ELSE row

getSecurityRoleId(cfg) == cfg.securityRoleId

getAlertChannelId(cfg) == cfg.alertChannelId

getCustomerRoleId(cfg) == cfg.customerRoleId

\* What getBlacklistRoleId returns: config?.blacklistRoleId || null.
getBlacklistRoleId(cfg) ==
    IF "blacklistRoleId" \in DOMAIN cfg THEN cfg["blacklistRoleId"] ELSE Null

\* isServerManager for a caller who is no developer: administrators pass,
\* others need the manager role of the configuration row.
isServerManager(cfg, caller) ==
    \/ caller.admin
    \/ /\ cfg.exists
       /\ Populated(cfg.managerRoleId)
       /\ cfg.managerRoleId \subseteq caller.roles

\* The configData each writing subcommand of /config-server builds.
subcommandData(subcommand) ==
    CASE subcommand = "set-manager-role" -> [managerRoleId |-> Some(ManagerRole)]
      [] subcommand = "set-customer-role" -> [customerRoleId |-> Some(CustomerRole)]
      [] subcommand = "set-security-role" -> [securityRoleId |-> Some(SecurityRole)]
      [] subcommand = "set-alert-channel" -> [alertChannelId |-> Some(AlertChannel)]

\* /config-server in the organization server, up to the call of
\* updateServerConfig: the permission check reads the configuration row for a
\* caller who is no administrator; the checks of the subcommand depend on the
\* interaction alone.  isText says whether the channel option is text based.
ConfigServer(k, subcommand, caller, isText) ==
    /\ Vacant(k)
    /\ LET c == [IdleCmd EXCEPT !.kind = "config", !.sub = subcommand] IN
       IF subcommand # "set-manager-role" /\ ~isServerManager(config, caller)
       THEN /\ outcome' = Reply(Admin, "config", 0, "no_permission")
            /\ UNCHANGED cmd
       ELSE IF subcommand = "set-manager-role" /\ ~caller.admin
       THEN /\ outcome' = Reply(Admin, "config", 0, "administrators_only")
            /\ UNCHANGED cmd
       ELSE IF subcommand = "set-alert-channel" /\ ~isText
       THEN /\ outcome' = Reply(Admin, "config", 0, "text_channel_required")
            /\ UNCHANGED cmd
       ELSE /\ cmd' = [cmd EXCEPT ![k] =
                 [c EXCEPT !.pc = "findOrCreate", !.data = subcommandData(subcommand)]]
            /\ UNCHANGED outcome
    /\ UNCHANGED <<now, config, servers, requests, alertMsg, originMsg, nextId,
                   file, task, prompts, sweep>>

\* The role or channel id the callers of updateServerConfig supply.
ConfigIds == {"idA"}

\* The partial configurations the callers of updateServerConfig build: one
\* field for each /config-server subcommand and for setBlacklistRole, and the
\* four fields of initializeServerConfig.
ConfigPartials ==
    UNION {{[managerRoleId |-> Some(id)], [customerRoleId |-> Some(id)],
            [securityRoleId |-> Some(id)], [alertChannelId |-> Some(id)],
            [blacklistRoleId |-> Some(id)],
            [managerRoleId |-> Some(id), customerRoleId |-> Null,
             securityRoleId |-> Null, alertChannelId |-> Null]} : id \in ConfigIds}

\* A caller hands configData to updateServerConfig for the organization
\* server.
UpdateServerConfig(k, configData) ==
    /\ Vacant(k)
    /\ cmd' = [cmd EXCEPT ![k] =
         [IdleCmd EXCEPT !.kind = "update", !.pc = "findOrCreate",
                         !.data = configData]]
    /\ UNCHANGED <<now, config, servers, requests, alertMsg, originMsg, nextId,
                   file, task, prompts, sweep, outcome>>

\* updateServerConfig, first await: ServerConfig.findOrCreate.  A row created
\* is the result; a row found is updated by the next call.
ConfigFindOrCreate(k) ==
    /\ cmd[k].pc = "findOrCreate"
    /\ IF ~config.exists
       THEN /\ config' = createdConfig(cmd[k].data)
            /\ Done(k, Admin, "stored")
       ELSE /\ cmd' = [cmd EXCEPT ![k].pc = "update", ![k].cfg = config]
            /\ UNCHANGED <<config, outcome>>
    /\ UNCHANGED <<now, servers, requests, alertMsg, originMsg, nextId, file,
                   task, prompts, sweep>>

\* updateServerConfig, second await: config.update(configData).
ConfigUpdate(k) ==
    /\ cmd[k].pc = "update"
    /\ config' = updatedConfig(config, cmd[k].cfg, cmd[k].data)
    /\ Done(k, Admin, "stored")
    /\ UNCHANGED <<now, servers, requests, alertMsg, originMsg, nextId, file,
                   task, prompts, sweep>>

(* --------------------------- Server Registry -------------------------- *)

\* Variant of registrationSave that writes the row a first registration
\* creates over the existing one.
registrationSaveReplacing(row, instance, g, ch, at) ==
    [NoServer EXCEPT !.exists = TRUE, !.guildName = Some(g),
                     !.channelId = Some(ch), !.isActive = TRUE,
                     !.lastAccessed = at]

\* externalServer.save() of /setup-security-channel on the instance read:
\* channelId, guildName and isActive are written when the value assigned
\* differs from the one the instance was read with, lastAccessed is a new
\* Date; no other attribute is assigned.
registrationSave(row, instance, g, ch, at) ==
    [row EXCEPT !.channelId = IF instance.channelId # Some(ch) THEN Some(ch) ELSE @,
                !.guildName = IF instance.guildName # Some(g) THEN Some(g) ELSE @,
                !.isActive = IF ~instance.isActive THEN TRUE ELSE @,
                !.lastAccessed = at]

\* ExternalServer.create of a first registration; the attributes not
\* supplied take the defaults of the model.
registrationCreate(g, ch, at) ==
    [NoServer EXCEPT !.exists = TRUE, !.guildName = Some(g),
                     !.channelId = Some(ch), !.isActive = TRUE,
                     !.lastAccessed = at]

\* /setup-security-channel in a customer server, up to the save or the
\* create: ExternalServer.findByPk(interaction.guild.id); the values to store,
\* new Date() among them, are fixed when it returns.
SetupSecurityChannel(k, g, ch) ==
    /\ Vacant(k)
    /\ cmd' = [cmd EXCEPT ![k] =
         [IdleCmd EXCEPT !.kind = "setup",
                         !.pc = IF servers[g].exists THEN "save" ELSE "create",
                         !.guild = g, !.channel = Some(ch),
                         !.row = servers[g], !.at = now]]
    /\ UNCHANGED <<now, config, servers, requests, alertMsg, originMsg, nextId,
                   file, task, prompts, sweep, outcome>>

\* externalServer.save() of a registration that found a row.
SetupSecurityChannelSave(k) ==
    /\ cmd[k].kind = "setup"
    /\ cmd[k].pc = "save"
    /\ servers' = [servers EXCEPT ![cmd[k].guild] =
         registrationSave(@, cmd[k].row, cmd[k].guild,
                          CHOOSE ch \in Channels : cmd[k].channel = Some(ch),
                          cmd[k].at)]
    /\ Done(k, Admin, "updated")
    /\ UNCHANGED <<now, config, requests, alertMsg, originMsg, nextId, file,
                   task, prompts, sweep>>

\* ExternalServer.create of a registration that found no row: guildId is the
\* primary key, so a row created since the read makes create reject, and the
\* catch of execute replies with the error.
SetupSecurityChannelCreate(k) ==
    /\ cmd[k].kind = "setup"
    /\ cmd[k].pc = "create"
    /\ IF servers[cmd[k].guild].exists
       THEN /\ Done(k, Admin, "error")
            /\ UNCHANGED servers
       ELSE /\ servers' = [servers EXCEPT ![cmd[k].guild] =
                 registrationCreate(cmd[k].guild,
                                    CHOOSE ch \in Channels : cmd[k].channel = Some(ch),
                                    cmd[k].at)]
            /\ Done(k, Admin, "registered")
    /\ UNCHANGED <<now, config, requests, alertMsg, originMsg, nextId, file,
                   task, prompts, sweep>>

\* Roles of a customer server that its administrators put on the allow-list.
ListedRoles == {"role1", "role2"}

\* Variant of requiredRoles whose add does not look for the role in the list.
requiredRolesAlwaysAdding(allowedRoleIds, subcommand, role) ==
    CASE subcommand = "add" ->
           [reply |-> "added", list |-> Append(allowedRoleIds, role)]
      [] subcommand = "remove" ->
           IF ~Includes(allowedRoleIds, role)
           THEN [reply |-> "not_in_list", list |-> allowedRoleIds]
           ELSE [reply |-> "removed", list |-> Filter(allowedRoleIds, role)]
      [] subcommand = "clear" -> [reply |-> "cleared", list |-> <<>>]

\* The switch of /set-required-roles over the list read: the reply the
\* subcommand ends with and the list it assigns to the instance.
requiredRoles(allowedRoleIds, subcommand, role) ==
    CASE subcommand = "add" ->
           IF Includes(allowedRoleIds, role)
           THEN [reply |-> "already_authorized", list |-> allowedRoleIds]
           ELSE [reply |-> "added", list |-> Append(allowedRoleIds, role)]
      [] subcommand = "remove" ->
           IF ~Includes(allowedRoleIds, role)
           THEN [reply |-> "not_in_list", list |-> allowedRoleIds]
           ELSE [reply |-> "removed", list |-> Filter(allowedRoleIds, role)]
      [] subcommand = "clear" -> [reply |-> "cleared", list |-> <<>>]

\* /set-required-roles add | remove | clear, up to the call of save():
\* findByPk, the list of the row read, the early replies.
SetRequiredRoles(k, g, subcommand, role) ==
    /\ Vacant(k)
    /\ LET c == [IdleCmd EXCEPT !.kind = "roles", !.guild = g, !.sub = subcommand]
           r == requiredRoles(ColumnGet(servers[g].allowedRoleIds).arr,
                              subcommand, role)
       IN IF ~servers[g].exists
          THEN /\ outcome' = Reply(Requester, "roles", 0, "not_registered")
               /\ UNCHANGED cmd
          ELSE IF r.reply \in {"already_authorized", "not_in_list"}
          THEN /\ outcome' = Reply(Requester, "roles", 0, r.reply)
               /\ UNCHANGED cmd
          ELSE /\ cmd' = [cmd EXCEPT ![k] =
                    [c EXCEPT !.pc = "save", !.sub = r.reply, !.row = servers[g],
                              !.col = ColumnSet(JSArray(r.list))]]
               /\ UNCHANGED outcome
    /\ UNCHANGED <<now, config, servers, requests, alertMsg, originMsg, nextId,
                   file, task, prompts, sweep>>

\* externalServer.save(): the column is written when the value assigned
\* differs from the value of the instance.
SetRequiredRolesSave(k) ==
    /\ cmd[k].kind = "roles"
    /\ cmd[k].pc = "save"
    /\ servers' = [servers EXCEPT ![cmd[k].guild].allowedRoleIds =
                     IF cmd[k].col # cmd[k].row.allowedRoleIds THEN cmd[k].col ELSE @]
    /\ Done(k, Requester, cmd[k].sub)
    /\ UNCHANGED <<now, config, requests, alertMsg, originMsg, nextId, file,
                   task, prompts, sweep>>

\* canBlacklistServers for a caller who is no developer: the owner of the
\* organization server passes, another member needs the role that
\* config.blacklistRoleId names.
canBlacklistServers(cfg, owner, roles) ==
    \/ owner
    \/ /\ cfg.exists
       /\ Populated(getBlacklistRoleId(cfg))
       /\ getBlacklistRoleId(cfg) \subseteq roles

\* /manage-blacklist blacklist | unblacklist up to the call of
\* blacklistServer or unblacklistServer.  owner says whether the caller, a
\* member without roles, owns the organization server: the owner's command
\* reads the registration, another member's command reads the configuration
\* row for the permission and is on its way to the refusal.
ManageBlacklist(k, g, subcommand, owner) ==
    /\ Vacant(k)
    /\ LET c == [IdleCmd EXCEPT !.kind = "blacklist", !.guild = g, !.sub = subcommand]
       IN IF ~canBlacklistServers(config, owner, {})
          THEN /\ cmd' = [cmd EXCEPT ![k] = [c EXCEPT !.pc = "denied"]]
               /\ UNCHANGED outcome
          ELSE IF ~servers[g].exists
                  \/ (subcommand = "blacklist" /\ servers[g].isBlacklisted)
                  \/ (subcommand = "unblacklist" /\ ~servers[g].isBlacklisted)
          THEN /\ outcome' = Reply(Admin, "blacklist", 0,
                    IF ~servers[g].exists THEN "not_registered"
                    ELSE IF subcommand = "blacklist" THEN "already_blacklisted"
                    ELSE "not_blacklisted")
               /\ UNCHANGED cmd
          ELSE /\ cmd' = [cmd EXCEPT ![k] = [c EXCEPT !.pc = "call", !.row = servers[g]]]
               /\ UNCHANGED outcome
    /\ UNCHANGED <<now, config, servers, requests, alertMsg, originMsg, nextId,
                   file, task, prompts, sweep>>

\* The refusal: getBlacklistRoleId is read for the text of the reply.
ManageBlacklistDenied(k) ==
    /\ cmd[k].kind = "blacklist"
    /\ cmd[k].pc = "denied"
    /\ Done(k, Admin, "no_permission")
    /\ UNCHANGED <<now, config, servers, requests, alertMsg, originMsg, nextId,
                   file, task, prompts, sweep>>

\* The call of blacklistServer or unblacklistServer: database/server-utils
\* exports neither, the call throws and the catch of execute replies.
ManageBlacklistCall(k) ==
    /\ cmd[k].kind = "blacklist"
    /\ cmd[k].pc = "call"
    /\ Done(k, Admin, "error")
    /\ UNCHANGED <<now, config, servers, requests, alertMsg, originMsg, nextId,
                   file, task, prompts, sweep>>

\* save() of markServerActive on the instance read: lastAccessed is a new
\* Date, isActive is written when the instance was inactive.
markServerActive(row, instance, at) ==
    [row EXCEPT !.lastAccessed = at,
                !.isActive = IF ~instance.isActive THEN TRUE ELSE @]

\* if (!server) return false
markServerActiveFinds(row) == row.exists

\* markServerActive(g) called on any guild id, up to the call of save():
\* findByPk, which may reject.  The caller is told the returned value.
MarkServerActive(k, g, ok) ==
    /\ Vacant(k)
    /\ IF ~ok \/ ~markServerActiveFinds(servers[g])
       THEN /\ outcome' = Reply(Requester, "touch", 0, "false")
            /\ UNCHANGED cmd
       ELSE /\ cmd' = [cmd EXCEPT ![k] =
                 [IdleCmd EXCEPT !.kind = "touch", !.pc = "save", !.guild = g,
                                 !.row = servers[g], !.at = now]]
            /\ UNCHANGED outcome
    /\ UNCHANGED <<now, config, servers, requests, alertMsg, originMsg, nextId,
                   file, task, prompts, sweep>>

\* server.save() of markServerActive; a rejection is caught and false is
\* returned.
MarkServerActiveSave(k, ok) ==
    /\ cmd[k].kind = "touch"
    /\ cmd[k].pc = "save"
    /\ servers' = IF ok
                  THEN [servers EXCEPT ![cmd[k].guild] =
                          markServerActive(@, cmd[k].row, cmd[k].at)]
                  ELSE servers
    /\ Done(k, Requester, IF ok THEN "true" ELSE "false")
    /\ UNCHANGED <<now, config, requests, alertMsg, originMsg, nextId, file,
                   task, prompts, sweep>>

(* --------------------------- Activity Sweeper ------------------------- *)

cutoffDate == now - INACTIVITY_THRESHOLD_DAYS

\* Variant of inactiveServers that also selects a registration last accessed
\* exactly at the cutoff.
inactiveServersInclusive ==
    {g \in Guilds : /\ servers[g].exists
                    /\ servers[g].isActive
                    /\ servers[g].lastAccessed <= cutoffDate}

\* Variant of inactiveServers without the isActive condition.
inactiveServersAnyState ==
    {g \in Guilds : /\ servers[g].exists
                    /\ servers[g].lastAccessed < cutoffDate}

\* findAll where lastAccessed < cutoffDate and isActive.
inactiveServers ==
    {g \in Guilds : /\ servers[g].exists
                    /\ servers[g].isActive
                    /\ servers[g].lastAccessed < cutoffDate}

\* The orders in which a query without ORDER BY can return the rows S.
Orderings(S) ==
    {s \in [1..Cardinality(S) -> S] : \A i, j \in 1..Cardinality(S) : s[i] = s[j] => i = j}

\* The timer fires and updateServerActiveStatus runs its first step, the
\* query, which returns the rows selected in the order list.
SweepFind(list) ==
    /\ sweep.pc = "idle"
    /\ sweep.timers > 0
    /\ list \in Orderings(inactiveServers)
    /\ sweep' = [IdleSweep EXCEPT !.pc = "saving",
                                  !.list = list,
                                  !.updated = Len(list),
                                  !.timers = sweep.timers - 1]
    /\ UNCHANGED <<now, config, servers, requests, alertMsg, originMsg, nextId,
                   file, cmd, task, prompts, outcome>>

\* One pass of the loop: server.isActive = false; save().
SweepSave ==
    /\ sweep.pc = "saving"
    /\ sweep.list # <<>>
    /\ servers' = [servers EXCEPT ![Head(sweep.list)].isActive = FALSE]
    /\ sweep' = [sweep EXCEPT !.list = Tail(@)]
    /\ UNCHANGED <<now, config, requests, alertMsg, originMsg, nextId, file,
                   cmd, task, prompts, outcome>>

\* The first count: the registrations with isActive true.
SweepCountActive ==
    /\ sweep.pc = "saving"
    /\ sweep.list = <<>>
    /\ sweep' = [sweep EXCEPT
         !.pc = "counting",
         !.active = Cardinality({g \in Guilds : servers[g].exists /\ servers[g].isActive})]
    /\ UNCHANGED <<now, config, servers, requests, alertMsg, originMsg, nextId,
                   file, cmd, task, prompts, outcome>>

\* The second count and the returned statistics; updateServerActivity then
\* schedules the next run and the pass rests until that timer.
SweepCountInactive ==
    /\ sweep.pc = "counting"
    /\ sweep' = [sweep EXCEPT
         !.pc = "idle",
         !.timers = @ + 1,
         !.inactive = Cardinality({g \in Guilds : servers[g].exists /\ ~servers[g].isActive})]
    /\ UNCHANGED <<now, config, servers, requests, alertMsg, originMsg, nextId,
                   file, cmd, task, prompts, outcome>>

\* The timer fires and the query rejects: the pass has found nothing and the
\* rejection is on its way to the handlers.
SweepFindThrow ==
    /\ sweep.pc = "idle"
    /\ sweep.timers > 0
    /\ sweep' = [IdleSweep EXCEPT !.pc = "thrown", !.timers = sweep.timers - 1]
    /\ UNCHANGED <<now, config, servers, requests, alertMsg, originMsg, nextId,
                   file, cmd, task, prompts, outcome>>

\* A save() of the loop or one of the two counts rejects: the rest of the
\* pass is abandoned, rows already saved stay saved.
SweepThrow ==
    /\ sweep.pc \in {"saving", "counting"}
    /\ sweep' = [sweep EXCEPT !.pc = "thrown", !.list = <<>>]
    /\ UNCHANGED <<now, config, servers, requests, alertMsg, originMsg, nextId,
                   file, cmd, task, prompts, outcome>>

\* Variant of SweepCatch that logs the error and schedules nothing.
SweepCatchLogOnly ==
    /\ sweep.pc = "thrown"
    /\ sweep' = [sweep EXCEPT !.pc = "idle"]
    /\ UNCHANGED <<now, config, servers, requests, alertMsg, originMsg, nextId,
                   file, cmd, task, prompts, outcome>>

\* updateServerActiveStatus logs and rethrows; the catch of
\* updateServerActivity logs and schedules the next run.
SweepCatch ==
    /\ sweep.pc = "thrown"
    /\ sweep' = [sweep EXCEPT !.pc = "idle", !.timers = @ + 1]
    /\ UNCHANGED <<now, config, servers, requests, alertMsg, originMsg, nextId,
                   file, cmd, task, prompts, outcome>>

(* ----------------- /request-external-security ------------------------- *)

\* Request commands dispatched and not yet accepted or rejected; each may
\* still take an interaction id.
Undecided ==
    Cardinality({k \in Commands : cmd[k].kind = "internal"
                                   /\ cmd[k].pc \in {"securityRole", "alertChannel"}})
    + (IF file.pc \in {"securityRole", "find"} THEN 1 ELSE 0)

\* if (!alertChannelId || !securityRoleId)
configured(alertChannelId, securityRoleId) ==
    Populated(alertChannelId) /\ Populated(securityRoleId)

\* Variant of externalPreconditions without the allow-list check.
externalPreconditionsAnyRole(externalServer, channelId, memberRoles) ==
    IF ~externalServer.exists THEN "not_registered"
    ELSE IF channelId # externalServer.channelId THEN "wrong_channel"
    ELSE "ok"

\* The early returns of execute on the registration read, in the order the
\* code takes them; "ok" when none applies.  channelId is
\* interaction.channelId, memberRoles the set of roles the caller holds in
\* the customer server.
externalPreconditions(externalServer, channelId, memberRoles) ==
    IF ~externalServer.exists THEN "not_registered"
    ELSE IF channelId # externalServer.channelId THEN "wrong_channel"
    ELSE LET allowedRoleIds == ColumnGet(externalServer.allowedRoleIds).arr IN
         IF /\ Len(allowedRoleIds) > 0
            /\ ~\E role \in memberRoles : Includes(allowedRoleIds, role)
         THEN "no_role"
         ELSE "ok"

\* The command is dispatched in channel channelId of guild g by a member
\* holding memberRoles: getAlertChannelId reads the configuration.
FileStart(g, channelId, memberRoles) ==
    /\ file.pc = "idle"
    /\ nextId + Undecided <= MaxRequests
    /\ file' = [IdleFile EXCEPT !.pc = "securityRole", !.guild = g,
                                !.channel = Some(channelId), !.roles = memberRoles,
                                !.alertChannelId = getAlertChannelId(config)]
    /\ UNCHANGED <<now, config, servers, requests, alertMsg, originMsg, nextId,
                   cmd, task, prompts, sweep, outcome>>

\* getSecurityRoleId reads the configuration a second time; a value missing
\* from either read ends the command.
FileSecurityRole ==
    /\ file.pc = "securityRole"
    /\ IF configured(file.alertChannelId, getSecurityRoleId(config))
       THEN /\ file' = [file EXCEPT !.pc = "find"]
            /\ UNCHANGED outcome
       ELSE /\ file' = IdleFile
            /\ outcome' = Reply(Requester, "file", 0, "not_configured")
    /\ UNCHANGED <<now, config, servers, requests, alertMsg, originMsg, nextId,
                   cmd, task, prompts, sweep>>

\* ExternalServer.findByPk and the checks on the row it returns; a filing
\* that passes them is known by its interaction id from here on.
FileFind ==
    /\ file.pc = "find"
    /\ LET verdict == externalPreconditions(servers[file.guild], file.channel,
                                          file.roles) IN
       IF verdict # "ok"
       THEN /\ file' = IdleFile
            /\ outcome' = Reply(Requester, "file", 0, verdict)
            /\ UNCHANGED nextId
       ELSE /\ file' = [file EXCEPT !.pc = "touch", !.rid = nextId,
                                    !.server = servers[file.guild]]
            /\ nextId' = nextId + 1
            /\ UNCHANGED outcome
    /\ UNCHANGED <<now, config, servers, requests, alertMsg, originMsg, cmd,
                   task, prompts, sweep>>

\* await markServerActive(interaction.guild.id), its findByPk: a rejection or
\* a missing row makes it return false, and execute goes on.
FileTouchFind(ok) ==
    /\ file.pc = "touch"
    /\ file' = IF ok /\ markServerActiveFinds(servers[file.guild])
               THEN [file EXCEPT !.pc = "touchSave", !.touched = servers[file.guild],
                                 !.at = now]
               ELSE [file EXCEPT !.pc = "confirm"]
    /\ UNCHANGED <<now, config, servers, requests, alertMsg, originMsg, nextId,
                   cmd, task, prompts, sweep, outcome>>

\* await markServerActive(interaction.guild.id), its save(): a rejection makes
\* it return false, and execute goes on.
FileTouchSave(ok) ==
    /\ file.pc = "touchSave"
    /\ servers' = IF ok
                  THEN [servers EXCEPT ![file.guild] =
                          markServerActive(@, file.touched, file.at)]
                  ELSE servers
    /\ file' = [file EXCEPT !.pc = "confirm"]
    /\ UNCHANGED <<now, config, requests, alertMsg, originMsg, nextId, cmd, task,
                   prompts, sweep, outcome>>

\* The confirmation embed posted in the channel the command was issued in.
localEmbed(channel) ==
    [exists |-> TRUE, channel |-> channel, title |-> "sent", status |-> "sent",
     names |-> <<>>, conclusion |-> Null, concludedBy |-> Null,
     controls |-> FALSE]

\* The alert embed with its Respond and Conclude buttons.
remoteEmbed(external) ==
    [exists |-> TRUE, external |-> external, title |-> "open",
     responders |-> <<>>, conclusions |-> <<>>, controls |-> TRUE]

\* interaction.reply, then interaction.channel.send of the confirmation; a
\* throw lands in the outer catch.
FileConfirm(ok) ==
    /\ file.pc = "confirm"
    /\ IF ok
       THEN /\ originMsg' = [originMsg EXCEPT ![file.rid] = localEmbed(file.channel)]
            /\ file' = [file EXCEPT !.pc = "alert", !.localMessage = Some(file.rid)]
            /\ UNCHANGED outcome
       ELSE /\ file' = IdleFile
            /\ outcome' = Reply(Requester, "file", file.rid, "error")
            /\ UNCHANGED originMsg
    /\ UNCHANGED <<now, config, servers, requests, alertMsg, nextId, cmd, task,
                   prompts, sweep>>

\* Variant of FileAlert that ends with the success notice when delivery fails.
FileAlertUnreported(ok) ==
    /\ file.pc = "alert"
    /\ IF ok
       THEN /\ alertMsg' = [alertMsg EXCEPT ![file.rid] = remoteEmbed(TRUE)]
            /\ file' = [file EXCEPT !.pc = "store", !.securityMessage = Some(file.rid)]
            /\ UNCHANGED outcome
       ELSE /\ file' = IdleFile
            /\ outcome' = Reply(Requester, "file", file.rid, "sent_successfully")
            /\ UNCHANGED alertMsg
    /\ UNCHANGED <<now, config, servers, requests, originMsg, nextId, cmd, task,
                   prompts, sweep>>

\* Main guild, membership, channel and permission lookups, then
\* alertChannel.send to the channel read at dispatch; any failure ends the
\* command with a failure notice.
FileAlert(ok) ==
    /\ file.pc = "alert"
    /\ IF ok
       THEN /\ alertMsg' = [alertMsg EXCEPT ![file.rid] = remoteEmbed(TRUE)]
            /\ file' = [file EXCEPT !.pc = "store", !.securityMessage = Some(file.rid)]
            /\ UNCHANGED outcome
       ELSE /\ file' = IdleFile
            /\ outcome' = Reply(Requester, "file", file.rid, "failed_to_send")
            /\ UNCHANGED alertMsg
    /\ UNCHANGED <<now, config, servers, requests, originMsg, nextId, cmd, task,
                   prompts, sweep>>

\* Variant of createdRequest that stores no reference to the alert message.
createdRequestUnlinked(f) ==
    [exists |-> TRUE, requestId |-> f.rid, isExternal |-> TRUE,
     requesterId |-> Some(Requester), requesterName |-> Some(Requester),
     location |-> Some("Lobby"), details |-> Some("details"),
     contact |-> Some("contact"), externalGuildId |-> Some(f.guild),
     externalMessageId |-> f.localMessage,
     securityMessageId |-> Null,
     status |-> "pending",
     responders |-> ColumnSet(JSONstringify(JSArray(<<>>))),
     conclusionReason |-> Null, concludedById |-> Null,
     concludedByName |-> Null, concludedAt |-> Null]

\* The row SecurityRequest.create is given by the filing f.
createdRequest(f) ==
    [exists |-> TRUE, requestId |-> f.rid, isExternal |-> TRUE,
     requesterId |-> Some(Requester), requesterName |-> Some(Requester),
     location |-> Some("Lobby"), details |-> Some("details"),
     contact |-> Some("contact"), externalGuildId |-> Some(f.guild),
     externalMessageId |-> f.localMessage,
     securityMessageId |-> f.securityMessage,
     status |-> "pending",
     responders |-> ColumnSet(JSONstringify(JSArray(<<>>))),
     conclusionReason |-> Null, concludedById |-> Null,
     concludedByName |-> Null, concludedAt |-> Null]

\* SecurityRequest.create inside its own try/catch, then the success notice.
FileStore(ok) ==
    /\ file.pc = "store"
    /\ requests' = IF ok THEN [requests EXCEPT ![file.rid] = createdRequest(file)]
                   ELSE requests
    /\ file' = IdleFile
    /\ outcome' = Reply(Requester, "file", file.rid, "sent_successfully")
    /\ UNCHANGED <<now, config, servers, alertMsg, originMsg, nextId, cmd, task,
                   prompts, sweep>>

(* ------------------------- /request-security -------------------------- *)

\* Variant of internalPreconditions without the customer-role check.
internalPreconditionsAnyMember(customerRoleId, securityRoleId, alertChannelId, hasCustomerRole) ==
    IF \/ ~Populated(customerRoleId)
       \/ ~Populated(securityRoleId)
       \/ ~Populated(alertChannelId)
    THEN "not_configured"
    ELSE "ok"

\* The early returns of execute on the three values read.
internalPreconditions(customerRoleId, securityRoleId, alertChannelId, hasCustomerRole) ==
    IF \/ ~Populated(customerRoleId)
       \/ ~Populated(securityRoleId)
       \/ ~Populated(alertChannelId)
    THEN "not_configured"
    ELSE IF ~hasCustomerRole THEN "no_permission"
    ELSE "ok"

\* The internal command is dispatched by a member who holds the customer
\* role iff hasCustomerRole: getCustomerRoleId reads the configuration.
RequestSecurity(k, hasCustomerRole) ==
    /\ Vacant(k)
    /\ nextId + Undecided <= MaxRequests
    /\ cmd' = [cmd EXCEPT ![k] =
         [IdleCmd EXCEPT !.kind = "internal", !.pc = "securityRole",
                         !.held = hasCustomerRole,
                         !.customerRoleId = getCustomerRoleId(config)]]
    /\ UNCHANGED <<now, config, servers, requests, alertMsg, originMsg, nextId,
                   file, task, prompts, sweep, outcome>>

\* getSecurityRoleId reads the configuration a second time.
RequestSecurityRole(k) ==
    /\ cmd[k].kind = "internal"
    /\ cmd[k].pc = "securityRole"
    /\ cmd' = [cmd EXCEPT ![k].pc = "alertChannel",
                          ![k].securityRoleId = getSecurityRoleId(config)]
    /\ UNCHANGED <<now, config, servers, requests, alertMsg, originMsg, nextId,
                   file, task, prompts, sweep, outcome>>

\* getAlertChannelId reads it a third time, and the early returns are taken
\* on the three values; a command that passes them is known by its
\* interaction id from here on.
RequestAlertChannel(k) ==
    /\ cmd[k].kind = "internal"
    /\ cmd[k].pc = "alertChannel"
    /\ LET verdict == internalPreconditions(cmd[k].customerRoleId,
                          cmd[k].securityRoleId, getAlertChannelId(config),
                          cmd[k].held) IN
       IF verdict # "ok"
       THEN /\ Done(k, Requester, verdict)
            /\ UNCHANGED nextId
       ELSE /\ cmd' = [cmd EXCEPT ![k].pc = "send", ![k].rid = nextId]
            /\ nextId' = nextId + 1
            /\ UNCHANGED outcome
    /\ UNCHANGED <<now, config, servers, requests, alertMsg, originMsg, file,
                   task, prompts, sweep>>

\* channels.fetch, the permission checks and alertChannel.send: the alert is
\* the only view, and nothing is stored.
RequestSend(k, ok) ==
    /\ cmd[k].kind = "internal"
    /\ cmd[k].pc = "send"
    /\ alertMsg' = IF ok THEN [alertMsg EXCEPT ![cmd[k].rid] = remoteEmbed(FALSE)]
                   ELSE alertMsg
    /\ Done(k, Requester, IF ok THEN "sent_to_alert_channel" ELSE "error")
    /\ UNCHANGED <<now, config, servers, requests, originMsg, nextId, file, task,
                   prompts, sweep>>

(* ---------------------- interactionCreate: buttons -------------------- *)

\* Handler slot h takes the next interaction: slots carry no identity, the
\* lowest idle one is used.
Available(h) ==
    /\ task[h].pc = "idle"
    /\ \A i \in Handlers : i < h => task[i].pc # "idle"

\* Variant of buttonGate that only requires a security role to be configured.
buttonGateUnchecked(cfg, held) ==
    IF ~Populated(cfg.securityRoleId) THEN "not_configured" ELSE "ok"

\* The role gate of the button branch: the reply it ends with, or "ok".
buttonGate(cfg, held) ==
    IF ~Populated(getSecurityRoleId(cfg)) THEN "not_configured"
    ELSE IF ~held THEN "no_permission"
    ELSE "ok"

\* The responders the handler works with: the model getter's value, parsed
\* once more when it is a string.
currentResponders(request) ==
    LET v == ColumnGet(request.responders) IN
    IF IsString(v) THEN JSONparse(v).arr
    ELSE IF IsArray(v) THEN v.arr
    ELSE <<>>

\* The value handed back to the model setter: stringified when the getter
\* returned a string.
storedResponders(request, responders) ==
    IF IsString(ColumnGet(request.responders))
    THEN ColumnSet(JSONstringify(JSArray(responders)))
    ELSE ColumnSet(JSArray(responders))

\* A Respond button of the alert is pressed by member a, who holds the
\* security role iff held: the interaction carries the message as it is now.
RespondButton(h, a, rid, held) ==
    /\ Available(h)
    /\ alertMsg[rid].exists
    /\ alertMsg[rid].controls
    /\ task' = [task EXCEPT ![h] =
         [IdleTask EXCEPT !.kind = "respond", !.pc = "gate", !.actor = a,
                          !.rid = rid, !.held = held, !.embed = alertMsg[rid],
                          !.route = IF alertMsg[rid].external THEN "extrespond"
                                    ELSE "respond"]]
    /\ UNCHANGED <<now, config, servers, requests, alertMsg, originMsg, nextId,
                   file, cmd, prompts, sweep, outcome>>

\* A Conclude button of the alert is pressed.
ConcludeButton(h, a, rid, held) ==
    /\ Available(h)
    /\ alertMsg[rid].exists
    /\ alertMsg[rid].controls
    /\ task' = [task EXCEPT ![h] =
         [IdleTask EXCEPT !.kind = "conclude", !.pc = "gate", !.actor = a,
                          !.rid = rid, !.held = held, !.embed = alertMsg[rid],
                          !.route = IF alertMsg[rid].external THEN "extconclude"
                                    ELSE "conclude"]]
    /\ UNCHANGED <<now, config, servers, requests, alertMsg, originMsg, nextId,
                   file, cmd, prompts, sweep, outcome>>

\* Handler h returns and its member is told result.
Return(h, result) ==
    /\ task' = [task EXCEPT ![h] = IdleTask]
    /\ outcome' = Reply(task[h].actor, task[h].kind, task[h].rid, result)

\* The button branch: getSecurityRoleId reads the configuration, an external
\* id is checked for its field count, the member for the role, and the id is
\* routed.  External respond defers and calls handleExternalRespondButton,
\* internal respond defers and calls handleRespondButton, the conclude
\* buttons call showModal.
ButtonGate(h) ==
    /\ task[h].pc = "gate"
    /\ LET t == task[h]
           gate == buttonGate(config, t.held)
       IN IF gate = "not_configured" THEN Return(h, gate)
          ELSE IF t.route = "invalid_format" THEN Return(h, "invalid_format")
          ELSE IF gate # "ok" THEN Return(h, gate)
          ELSE IF t.route = "unrecognized" THEN Return(h, "ignored")
          ELSE /\ task' = [task EXCEPT ![h].pc =
                    CASE t.route = "extrespond" -> "find"
                      [] t.route = "respond" -> "edit"
                      [] OTHER -> "modal"]
               /\ UNCHANGED outcome
    /\ UNCHANGED <<now, config, servers, requests, alertMsg, originMsg, nextId,
                   file, cmd, prompts, sweep>>

\* Variant of ShowModal that removes the buttons of the alert as soon as the
\* reason form opens.
ShowModalClosing(h) ==
    /\ task[h].pc = "modal"
    /\ prompts' = prompts \cup {<<task[h].actor, task[h].rid>>}
    /\ alertMsg' = [alertMsg EXCEPT ![task[h].rid].controls = FALSE]
    /\ Return(h, "modal_shown")
    /\ UNCHANGED <<now, config, servers, requests, originMsg, nextId, file, cmd,
                   sweep>>

\* handleConcludeButton and handleExternalConcludeButton: interaction.showModal
\* opens the reason form for the member.
ShowModal(h) ==
    /\ task[h].pc = "modal"
    /\ prompts' = prompts \cup {<<task[h].actor, task[h].rid>>}
    /\ Return(h, "modal_shown")
    /\ UNCHANGED <<now, config, servers, requests, alertMsg, originMsg, nextId,
                   file, cmd, sweep>>

\* handleExternalRespondButton up to the call of save(): findByPk, the
\* responders of the row read, the membership test, the new list.
ExternalRespondFind(h) ==
    /\ task[h].kind = "respond"
    /\ task[h].pc = "find"
    /\ LET t == task[h]
           request == requests[t.rid]
           responders == currentResponders(request)
       IN IF ~request.exists THEN Return(h, "not_found")
          ELSE IF Includes(responders, t.actor) THEN Return(h, "already_responding")
          ELSE /\ task' = [task EXCEPT ![h] =
                    [t EXCEPT !.pc = "save", !.snap = request,
                              !.resps = Append(responders, t.actor),
                              !.col = storedResponders(request,
                                                       Append(responders, t.actor))]]
               /\ UNCHANGED outcome
    /\ UNCHANGED <<now, config, servers, requests, alertMsg, originMsg, nextId,
                   file, cmd, prompts, sweep>>

\* Variant of respondSave that writes the status and not the responders.
respondSaveStatusOnly(row, t) ==
    [row EXCEPT !.status = IF t.snap.status # "responding" THEN "responding" ELSE @]

\* Variant of respondSave that writes every attribute of the instance, as
\* read by findByPk, and not only the changed ones.
respondSaveEveryAttribute(row, t) ==
    [t.snap EXCEPT !.responders = t.col,
                   !.status = IF t.snap.status # "responding" THEN "responding" ELSE @]

\* save() of the instance: responders always differs from the row read,
\* status is written when the row read was not already responding.
respondSave(row, t) ==
    [row EXCEPT !.responders = t.col,
                !.status = IF t.snap.status # "responding" THEN "responding" ELSE @]

ExternalRespondSave(h) ==
    /\ task[h].kind = "respond"
    /\ task[h].pc = "save"
    /\ requests' = [requests EXCEPT ![task[h].rid] = respondSave(@, task[h])]
    /\ task' = [task EXCEPT ![h].pc = "edit"]
    /\ UNCHANGED <<now, config, servers, alertMsg, originMsg, nextId, file, cmd,
                   prompts, sweep, outcome>>

\* interaction.editReply({ embeds: [updatedEmbed] }): the embed of the message
\* as it was when the button was pressed, its responders field rewritten; the
\* buttons are not part of the edit.
respondEmbed(current, t) ==
    [t.embed EXCEPT !.responders = t.resps, !.controls = current.controls]

\* The row read names an origin message.
hasOrigin(request) ==
    /\ request.isExternal
    /\ Populated(request.externalGuildId)
    /\ Populated(request.externalMessageId)

ExternalRespondEdit(h) ==
    /\ task[h].kind = "respond"
    /\ task[h].pc = "edit"
    /\ task[h].embed.external
    /\ alertMsg' = [alertMsg EXCEPT ![task[h].rid] = respondEmbed(@, task[h])]
    /\ IF hasOrigin(task[h].snap)
       THEN /\ task' = [task EXCEPT ![h].pc = "server"]
            /\ UNCHANGED outcome
       ELSE Return(h, "responding")
    /\ UNCHANGED <<now, config, servers, requests, originMsg, nextId, file, cmd,
                   prompts, sweep>>

\* The guild the request row names.
originGuild(request) == CHOOSE g \in Guilds : request.externalGuildId = Some(g)

\* message.edit({ embeds }): the embed of a message is replaced, the message
\* stays in its channel.
edited(message, embed) == [embed EXCEPT !.channel = message.channel]

\* ExternalServer.findByPk(request.externalGuildId) of the respond handler.
ExternalRespondServer(h) ==
    /\ task[h].kind = "respond"
    /\ task[h].pc = "server"
    /\ LET externalServer == servers[originGuild(task[h].snap)] IN
       IF ~externalServer.exists
       THEN Return(h, "no_longer_registered")
       ELSE /\ task' = [task EXCEPT ![h].pc = "fetch", ![h].server = externalServer]
            /\ UNCHANGED outcome
    /\ UNCHANGED <<now, config, servers, requests, alertMsg, originMsg, nextId,
                   file, cmd, prompts, sweep>>

\* Variant of externalRespondCatch that replies as after a successful edit.
externalRespondCatchUnreported(h) == Return(h, "responding_notified")

\* The catch around the origin update of the respond handler.
externalRespondCatch(h) == Return(h, "updated_but_error_notifying")

\* guilds.fetch, channels.fetch(externalServer.channelId) and
\* messages.fetch(request.externalMessageId): the message is looked up in the
\* channel of the registration read; reachable says whether the platform
\* answers the three calls.
ExternalRespondFetch(h, reachable) ==
    /\ task[h].kind = "respond"
    /\ task[h].pc = "fetch"
    /\ IF reachable /\ task[h].server.channelId = originMsg[task[h].rid].channel
       THEN /\ task' = [task EXCEPT ![h].pc = "origin",
                                    ![h].fetched = originMsg[task[h].rid]]
            /\ UNCHANGED outcome
       ELSE externalRespondCatch(h)
    /\ UNCHANGED <<now, config, servers, requests, alertMsg, originMsg, nextId,
                   file, cmd, prompts, sweep>>

\* The embed written to the origin message: the embed fetched with its Status
\* field rewritten.
respondedExternalEmbed(t) ==
    [t.fetched EXCEPT !.status = "responding", !.names = t.resps]

\* externalMessage.edit of the respond handler; ok says whether the platform
\* accepts the edit.
ExternalRespondOrigin(h, ok) ==
    /\ task[h].kind = "respond"
    /\ task[h].pc = "origin"
    /\ IF ok
       THEN /\ originMsg' = [originMsg EXCEPT ![task[h].rid] =
                               edited(@, respondedExternalEmbed(task[h]))]
            /\ Return(h, "responding_notified")
       ELSE /\ externalRespondCatch(h)
            /\ UNCHANGED originMsg
    /\ UNCHANGED <<now, config, servers, requests, alertMsg, nextId, file, cmd,
                   prompts, sweep>>

\* handleRespondButton: the responders are read from the embed of the message
\* and written back to it; no row is involved.
InternalRespondEdit(h) ==
    /\ task[h].kind = "respond"
    /\ task[h].pc = "edit"
    /\ ~task[h].embed.external
    /\ LET t == task[h] IN
       IF Includes(t.embed.responders, t.actor)
       THEN /\ Return(h, "already_responding")
            /\ UNCHANGED alertMsg
       ELSE /\ alertMsg' = [alertMsg EXCEPT ![t.rid] =
                 [t.embed EXCEPT !.responders = Append(@, t.actor),
                                 !.controls = alertMsg[t.rid].controls]]
            /\ Return(h, "responding")
    /\ UNCHANGED <<now, config, servers, requests, originMsg, nextId, file, cmd,
                   prompts, sweep>>

(* ---------------------- interactionCreate: modals --------------------- *)

\* The reason form of member a is submitted; held says whether a holds the
\* security role at this moment.  The modal branch defers and calls the
\* handler of the form's kind.
ModalSubmit(h, a, rid, reason, held) ==
    /\ Available(h)
    /\ <<a, rid>> \in prompts
    /\ prompts' = prompts \ {<<a, rid>>}
    /\ task' = [task EXCEPT ![h] =
         [IdleTask EXCEPT !.kind = "submit", !.actor = a, !.rid = rid,
                          !.held = held, !.embed = alertMsg[rid],
                          !.reason = Some(reason),
                          !.pc = IF alertMsg[rid].external THEN "find" ELSE "edit"]]
    /\ UNCHANGED <<now, config, servers, requests, alertMsg, originMsg, nextId,
                   file, cmd, sweep, outcome>>

\* handleExternalConcludeModalSubmit up to the call of save().
ExternalConcludeFind(h) ==
    /\ task[h].kind = "submit"
    /\ task[h].pc = "find"
    /\ LET t == task[h]
           request == requests[t.rid]
       IN IF ~request.exists THEN Return(h, "not_found")
          ELSE /\ task' = [task EXCEPT ![h] =
                    [t EXCEPT !.pc = "save", !.snap = request, !.at = now]]
               /\ UNCHANGED outcome
    /\ UNCHANGED <<now, config, servers, requests, alertMsg, originMsg, nextId,
                   file, cmd, prompts, sweep>>

\* Variant of concludeSave that records the status and the reason and not who
\* concluded or when.
concludeSaveReasonOnly(row, t, by) ==
    [row EXCEPT
       !.status = IF t.snap.status # "concluded" THEN "concluded" ELSE @,
       !.conclusionReason = IF t.snap.conclusionReason # t.reason THEN t.reason ELSE @]

\* save() of the instance: each conclusion attribute is written when it
\* differs from the row read; the timestamp is a new Date.
concludeSave(row, t, by) ==
    [row EXCEPT
       !.status = IF t.snap.status # "concluded" THEN "concluded" ELSE @,
       !.conclusionReason = IF t.snap.conclusionReason # t.reason THEN t.reason ELSE @,
       !.concludedById = IF t.snap.concludedById # Some(by) THEN Some(by) ELSE @,
       !.concludedByName = IF t.snap.concludedByName # Some(by) THEN Some(by) ELSE @,
       !.concludedAt = Some(t.at)]

ExternalConcludeSave(h) ==
    /\ task[h].kind = "submit"
    /\ task[h].pc = "save"
    /\ requests' = [requests EXCEPT ![task[h].rid] =
                      concludeSave(@, task[h], task[h].actor)]
    /\ task' = [task EXCEPT ![h].pc = "edit"]
    /\ UNCHANGED <<now, config, servers, alertMsg, originMsg, nextId, file, cmd,
                   prompts, sweep, outcome>>

\* editReply({ embeds: [concludedEmbed], components: [] }): the embed of the
\* message the form belongs to, retitled, with the reason and the member
\* appended; the buttons are removed.
concludedEmbed(t, by) ==
    [t.embed EXCEPT !.title = "concluded",
                    !.conclusions = Append(@, <<t.reason, by>>),
                    !.controls = FALSE]

ExternalConcludeEdit(h) ==
    /\ task[h].kind = "submit"
    /\ task[h].pc = "edit"
    /\ task[h].embed.external
    /\ alertMsg' = [alertMsg EXCEPT ![task[h].rid] =
                      concludedEmbed(task[h], task[h].actor)]
    /\ IF hasOrigin(task[h].snap)
       THEN /\ task' = [task EXCEPT ![h].pc = "server"]
            /\ UNCHANGED outcome
       ELSE Return(h, "concluded")
    /\ UNCHANGED <<now, config, servers, requests, originMsg, nextId, file, cmd,
                   prompts, sweep>>

\* ExternalServer.findByPk(request.externalGuildId) of the conclusion handler.
ExternalConcludeServer(h) ==
    /\ task[h].kind = "submit"
    /\ task[h].pc = "server"
    /\ LET externalServer == servers[originGuild(task[h].snap)] IN
       IF ~externalServer.exists
       THEN Return(h, "no_longer_registered")
       ELSE /\ task' = [task EXCEPT ![h].pc = "fetch", ![h].server = externalServer]
            /\ UNCHANGED outcome
    /\ UNCHANGED <<now, config, servers, requests, alertMsg, originMsg, nextId,
                   file, cmd, prompts, sweep>>

\* The catch around the origin update of the conclusion handler.
externalConcludeCatch(h) == Return(h, "concluded_but_error_updating")

\* guilds.fetch, channels.fetch(externalServer.channelId) and messages.fetch
\* of the conclusion handler.
ExternalConcludeFetch(h, reachable) ==
    /\ task[h].kind = "submit"
    /\ task[h].pc = "fetch"
    /\ IF reachable /\ task[h].server.channelId = originMsg[task[h].rid].channel
       THEN /\ task' = [task EXCEPT ![h].pc = "origin",
                                    ![h].fetched = originMsg[task[h].rid]]
            /\ UNCHANGED outcome
       ELSE externalConcludeCatch(h)
    /\ UNCHANGED <<now, config, servers, requests, alertMsg, originMsg, nextId,
                   file, cmd, prompts, sweep>>

\* The embed that replaces the confirmation in the origin channel: a new
\* embed built from the row read and the form, not from the embed fetched.
concludedExternalEmbed(t, by) ==
    [exists |-> TRUE, channel |-> Null, title |-> "concluded",
     status |-> "completed", names |-> <<>>, conclusion |-> t.reason,
     concludedBy |-> Some(by), controls |-> FALSE]

\* externalMessage.edit of the conclusion handler.
ExternalConcludeOrigin(h, ok) ==
    /\ task[h].kind = "submit"
    /\ task[h].pc = "origin"
    /\ IF ok
       THEN /\ originMsg' = [originMsg EXCEPT ![task[h].rid] =
                 edited(@, concludedExternalEmbed(task[h], task[h].actor))]
            /\ Return(h, "concluded_notified")
       ELSE /\ externalConcludeCatch(h)
            /\ UNCHANGED originMsg
    /\ UNCHANGED <<now, config, servers, requests, alertMsg, nextId, file, cmd,
                   prompts, sweep>>

\* handleConcludeModalSubmit: the alert is rewritten, no row is involved.
InternalConcludeEdit(h) ==
    /\ task[h].kind = "submit"
    /\ task[h].pc = "edit"
    /\ ~task[h].embed.external
    /\ alertMsg' = [alertMsg EXCEPT ![task[h].rid] =
                      concludedEmbed(task[h], task[h].actor)]
    /\ Return(h, "concluded")
    /\ UNCHANGED <<now, config, servers, requests, originMsg, nextId, file, cmd,
                   prompts, sweep>>

(* ------------------- interactionCreate: control ids ------------------- *)
\* A customId is the sequence of its underscore-delimited fields, none of
\* which contains an underscore: split('_') yields the sequence, and
\* startsWith('kind_') holds when the first field is kind and another follows.

\* The ids the filing commands give their buttons.
externalButtonIds(rid, g) ==
    {<<"extrespond", ToString(rid), g>>, <<"extconclude", ToString(rid), g>>}

internalButtonIds(rid) ==
    {<<"respond", ToString(rid)>>, <<"conclude", ToString(rid)>>}

\* The ids the Conclude handlers give their reason forms.
externalModalIds(rid, g) == {<<"extconclude", "modal", ToString(rid), g>>}

internalModalIds(rid) == {<<"conclude", "modal", ToString(rid)>>}

\* An id with its last field lost, and with a field too many.
Truncated(parts) == SubSeq(parts, 1, Len(parts) - 1)

Extended(parts) == Append(parts, "x")

WithDamaged(ids) ==
    ids \cup {Truncated(p) : p \in ids} \cup {Extended(p) : p \in ids}

\* The ids a button press on alert msg can carry.
ButtonIds(msg) ==
    WithDamaged(IF alertMsg[msg].external
                THEN UNION {externalButtonIds(msg, g) : g \in FilingGuilds}
                ELSE internalButtonIds(msg))

\* The ids a form submitted from alert msg can carry.
ModalIds(msg) ==
    WithDamaged(IF alertMsg[msg].external
                THEN UNION {externalModalIds(msg, g) : g \in FilingGuilds}
                ELSE internalModalIds(msg))

startsWith(parts, prefix) ==
    /\ Len(parts) > Len(prefix)
    /\ SubSeq(parts, 1, Len(prefix)) = prefix

\* The request a field names; 0 when it names none.
requestIdOf(field) ==
    IF \E r \in RequestIds : ToString(r) = field
    THEN CHOOSE r \in RequestIds : ToString(r) = field
    ELSE 0

\* The button branch: which handler the id is routed to and the request id
\* taken from it.  handleRespondButton takes none; handleConcludeButton takes
\* the second field whatever the count.
buttonRoute(parts) ==
    IF startsWith(parts, <<"extrespond">>) \/ startsWith(parts, <<"extconclude">>)
    THEN IF Len(parts) # 3
         THEN [handler |-> "invalid_format", requestId |-> 0]
         ELSE [handler |-> parts[1], requestId |-> requestIdOf(parts[2])]
    ELSE IF startsWith(parts, <<"respond">>)
    THEN [handler |-> "respond", requestId |-> 0]
    ELSE IF startsWith(parts, <<"conclude">>)
    THEN [handler |-> "conclude", requestId |-> requestIdOf(parts[2])]
    ELSE [handler |-> "unrecognized", requestId |-> 0]

\* The modal branch.
modalRoute(parts) ==
    IF startsWith(parts, <<"conclude", "modal">>)
    THEN [handler |-> "conclude_modal", requestId |-> 0]
    ELSE IF startsWith(parts, <<"extconclude", "modal">>)
    THEN IF Len(parts) # 4
         THEN [handler |-> "invalid_format", requestId |-> 0]
         ELSE [handler |-> "extconclude_modal", requestId |-> requestIdOf(parts[3])]
    ELSE [handler |-> "unrecognized", requestId |-> 0]

\* Member a presses a button of alert msg whose id is parts.
PressControl(h, a, msg, parts, held) ==
    LET route == buttonRoute(parts) IN
    CASE route.handler = "extrespond" ->
           /\ route.requestId = msg
           /\ RespondButton(h, a, route.requestId, held)
      [] route.handler = "extconclude" ->
           /\ route.requestId = msg
           /\ ConcludeButton(h, a, route.requestId, held)
      [] route.handler = "respond" -> RespondButton(h, a, msg, held)
      [] route.handler = "conclude" -> ConcludeButton(h, a, msg, held)
      [] route.handler \in {"invalid_format", "unrecognized"} ->
           /\ Available(h)
           /\ alertMsg[msg].exists
           /\ alertMsg[msg].controls
           /\ task' = [task EXCEPT ![h] =
                [IdleTask EXCEPT !.kind = "button", !.pc = "gate", !.actor = a,
                                 !.rid = msg, !.held = held,
                                 !.embed = alertMsg[msg],
                                 !.route = route.handler]]
           /\ UNCHANGED <<now, config, servers, requests, alertMsg, originMsg,
                          nextId, file, cmd, prompts, sweep, outcome>>

\* Member a submits the reason form opened from alert msg; the form's id is
\* parts.
SubmitControl(h, a, msg, parts, reason, held) ==
    LET route == modalRoute(parts) IN
    CASE route.handler = "conclude_modal" -> ModalSubmit(h, a, msg, reason, held)
      [] route.handler = "extconclude_modal" ->
           /\ route.requestId = msg
           /\ ModalSubmit(h, a, route.requestId, reason, held)
      [] route.handler \in {"invalid_format", "unrecognized"} ->
           /\ <<a, msg>> \in prompts
           /\ prompts' = prompts \ {<<a, msg>>}
           /\ outcome' = Reply(a, "submit", msg,
                               IF route.handler = "invalid_format"
                               THEN "invalid_format" ELSE "ignored")
           /\ UNCHANGED <<now, config, servers, requests, alertMsg, originMsg,
                          nextId, file, cmd, task, sweep>>

(* --------------------------- specifications --------------------------- *)

\* The subcommands that configure the request lifecycle.
LifecycleCommands == {"set-customer-role", "set-security-role", "set-alert-channel"}

RoleCommands == {"add", "remove", "clear"}

BlacklistCommands == {"blacklist", "unblacklist"}

\* An administrator of the organization server.
Administrator == [admin |-> TRUE, roles |-> {}]

\* The configuration row once /config-server has stored the three ids of the
\* request lifecycle.
ConfiguredConfig ==
    [StartedConfig EXCEPT !.customerRoleId = Some(CustomerRole),
                          !.securityRoleId = Some(SecurityRole),
                          !.alertChannelId = Some(AlertChannel)]

\* The row /setup-security-channel stored for the filing server in an earlier
\* process.
ActiveRegistration ==
    [NoServer EXCEPT !.exists = TRUE, !.guildName = Some("g1"),
                     !.channelId = Some("c1"), !.isActive = TRUE]

\* Start-up over a database that outlived the previous process: the
\* configuration is absent, the row start-up creates, or the row an earlier
\* process configured; the filing server has no registration or the row of an
\* earlier registration.
InitStored ==
    /\ now = 0
    /\ config \in {NoConfig, StartedConfig, ConfiguredConfig}
    /\ servers \in {[g \in Guilds |-> IF g \in FilingGuilds THEN r ELSE NoServer] :
                      r \in {NoServer, ActiveRegistration}}
    /\ requests = [r \in RequestIds |-> NoRow]
    /\ alertMsg = [r \in RequestIds |-> NoAlert]
    /\ originMsg = [r \in RequestIds |-> NoOrigin]
    /\ nextId = 1
    /\ file = IdleFile
    /\ cmd = [k \in Commands |-> IdleCmd]
    /\ task = [h \in Handlers |-> IdleTask]
    /\ prompts = {}
    /\ sweep = IdleSweep
    /\ outcome = [m \in Members |-> NoOutcome]

\* The external request lifecycle: the filing command and the Respond and
\* Conclude handlers of its alert, all overlapping at their awaits.
Next ==
    \/ \E g \in FilingGuilds : FileStart(g, "c1", {})
    \/ FileSecurityRole
    \/ FileFind
    \/ FileTouchFind(TRUE)
    \/ FileTouchSave(TRUE)
    \/ FileConfirm(TRUE)
    \/ FileAlert(TRUE)
    \/ FileStore(TRUE)
    \/ \E h \in Handlers, a \in Actors, rid \in RequestIds :
         RespondButton(h, a, rid, TRUE)
    \/ \E h \in Handlers, rid \in RequestIds : ConcludeButton(h, "a1", rid, TRUE)
    \/ \E h \in Handlers, rid \in RequestIds : ModalSubmit(h, "a1", rid, "resolved", TRUE)
    \/ \E h \in Handlers : ButtonGate(h)
    \/ \E h \in Handlers : ShowModal(h)
    \/ \E h \in Handlers : ExternalRespondFind(h)
    \/ \E h \in Handlers : ExternalRespondSave(h)
    \/ \E h \in Handlers : ExternalRespondEdit(h)
    \/ \E h \in Handlers : ExternalRespondServer(h)
    \/ \E h \in Handlers : ExternalRespondFetch(h, TRUE)
    \/ \E h \in Handlers : ExternalRespondOrigin(h, TRUE)
    \/ \E h \in Handlers : ExternalConcludeFind(h)
    \/ \E h \in Handlers : ExternalConcludeSave(h)
    \/ \E h \in Handlers : ExternalConcludeEdit(h)
    \/ \E h \in Handlers : ExternalConcludeServer(h)
    \/ \E h \in Handlers : ExternalConcludeFetch(h, TRUE)
    \/ \E h \in Handlers : ExternalConcludeOrigin(h, TRUE)

Spec == InitStored /\ [][Next]_vars

\* Conclusions of an external request: both members open and submit reason
\* forms beside a member who responds; the handlers overlap at their awaits.
NextConclude ==
    \/ \E g \in FilingGuilds : FileStart(g, "c1", {})
    \/ FileSecurityRole
    \/ FileFind
    \/ FileTouchFind(TRUE)
    \/ FileTouchSave(TRUE)
    \/ FileConfirm(TRUE)
    \/ FileAlert(TRUE)
    \/ FileStore(TRUE)
    \/ \E h \in Handlers, rid \in RequestIds : RespondButton(h, "a1", rid, TRUE)
    \/ \E h \in Handlers, a \in Actors, rid \in RequestIds :
         ConcludeButton(h, a, rid, TRUE)
    \/ \E h \in Handlers, a \in Actors, rid \in RequestIds :
         ModalSubmit(h, a, rid, "resolved", TRUE)
    \/ \E h \in Handlers : ButtonGate(h)
    \/ \E h \in Handlers : ShowModal(h)
    \/ \E h \in Handlers : ExternalRespondFind(h)
    \/ \E h \in Handlers : ExternalRespondSave(h)
    \/ \E h \in Handlers : ExternalRespondEdit(h)
    \/ \E h \in Handlers : ExternalRespondServer(h)
    \/ \E h \in Handlers : ExternalRespondFetch(h, TRUE)
    \/ \E h \in Handlers : ExternalRespondOrigin(h, TRUE)
    \/ \E h \in Handlers : ExternalConcludeFind(h)
    \/ \E h \in Handlers : ExternalConcludeSave(h)
    \/ \E h \in Handlers : ExternalConcludeEdit(h)
    \/ \E h \in Handlers : ExternalConcludeServer(h)
    \/ \E h \in Handlers : ExternalConcludeFetch(h, TRUE)
    \/ \E h \in Handlers : ExternalConcludeOrigin(h, TRUE)

SpecConclude == InitStored /\ [][NextConclude]_vars

\* The role gate: a member who holds the security role at one interaction and
\* not at another presses the buttons of an external alert and submits the
\* reason form; the handlers overlap at their awaits.
NextGate ==
    \/ \E g \in FilingGuilds : FileStart(g, "c1", {})
    \/ FileSecurityRole
    \/ FileFind
    \/ FileTouchFind(TRUE)
    \/ FileTouchSave(TRUE)
    \/ FileConfirm(TRUE)
    \/ FileAlert(TRUE)
    \/ FileStore(TRUE)
    \/ \E h \in Handlers, rid \in RequestIds, held \in BOOLEAN :
         RespondButton(h, "a1", rid, held)
    \/ \E h \in Handlers, rid \in RequestIds, held \in BOOLEAN :
         ConcludeButton(h, "a1", rid, held)
    \/ \E h \in Handlers, rid \in RequestIds, held \in BOOLEAN :
         ModalSubmit(h, "a1", rid, "resolved", held)
    \/ \E h \in Handlers : ButtonGate(h)
    \/ \E h \in Handlers : ShowModal(h)
    \/ \E h \in Handlers : ExternalRespondFind(h)
    \/ \E h \in Handlers : ExternalRespondSave(h)
    \/ \E h \in Handlers : ExternalRespondEdit(h)
    \/ \E h \in Handlers : ExternalRespondServer(h)
    \/ \E h \in Handlers : ExternalRespondFetch(h, TRUE)
    \/ \E h \in Handlers : ExternalRespondOrigin(h, TRUE)
    \/ \E h \in Handlers : ExternalConcludeFind(h)
    \/ \E h \in Handlers : ExternalConcludeSave(h)
    \/ \E h \in Handlers : ExternalConcludeEdit(h)
    \/ \E h \in Handlers : ExternalConcludeServer(h)
    \/ \E h \in Handlers : ExternalConcludeFetch(h, TRUE)
    \/ \E h \in Handlers : ExternalConcludeOrigin(h, TRUE)

SpecGate == InitStored /\ [][NextGate]_vars

\* The internal request on a server being configured: /config-server and
\* /request-security overlap at their awaits, and a member presses the
\* buttons of the alert.
NextInternal ==
    \/ \E k \in Commands, s \in LifecycleCommands :
         ConfigServer(k, s, Administrator, TRUE)
    \/ \E k \in Commands : ConfigFindOrCreate(k)
    \/ \E k \in Commands : ConfigUpdate(k)
    \/ \E k \in Commands, held \in BOOLEAN : RequestSecurity(k, held)
    \/ \E k \in Commands : RequestSecurityRole(k)
    \/ \E k \in Commands : RequestAlertChannel(k)
    \/ \E k \in Commands : RequestSend(k, TRUE)
    \/ \E h \in Handlers, rid \in RequestIds : RespondButton(h, "a1", rid, TRUE)
    \/ \E h \in Handlers, rid \in RequestIds : ConcludeButton(h, "a1", rid, TRUE)
    \/ \E h \in Handlers, rid \in RequestIds : ModalSubmit(h, "a1", rid, "resolved", TRUE)
    \/ \E h \in Handlers : ButtonGate(h)
    \/ \E h \in Handlers : ShowModal(h)
    \/ \E h \in Handlers : InternalRespondEdit(h)
    \/ \E h \in Handlers : InternalConcludeEdit(h)

SpecInternal == Init /\ [][NextInternal]_vars

\* The external request lifecycle with platform calls that may fail and a
\* filing server that registers again in another channel, beside the handlers
\* in flight.
NextFault ==
    \/ \E k \in Commands, g \in FilingGuilds : SetupSecurityChannel(k, g, "c2")
    \/ \E k \in Commands : SetupSecurityChannelSave(k)
    \/ \E k \in Commands : SetupSecurityChannelCreate(k)
    \/ \E g \in FilingGuilds : FileStart(g, "c1", {})
    \/ FileSecurityRole
    \/ FileFind
    \/ FileTouchFind(TRUE)
    \/ FileTouchSave(TRUE)
    \/ \E ok \in BOOLEAN : FileConfirm(ok)
    \/ \E ok \in BOOLEAN : FileAlert(ok)
    \/ \E ok \in BOOLEAN : FileStore(ok)
    \/ \E h \in Handlers, rid \in RequestIds : RespondButton(h, "a1", rid, TRUE)
    \/ \E h \in Handlers, rid \in RequestIds : ConcludeButton(h, "a1", rid, TRUE)
    \/ \E h \in Handlers, rid \in RequestIds : ModalSubmit(h, "a1", rid, "resolved", TRUE)
    \/ \E h \in Handlers : ButtonGate(h)
    \/ \E h \in Handlers : ShowModal(h)
    \/ \E h \in Handlers : ExternalRespondFind(h)
    \/ \E h \in Handlers : ExternalRespondSave(h)
    \/ \E h \in Handlers : ExternalRespondEdit(h)
    \/ \E h \in Handlers : ExternalRespondServer(h)
    \/ \E h \in Handlers, reachable \in BOOLEAN : ExternalRespondFetch(h, reachable)
    \/ \E h \in Handlers, ok \in BOOLEAN : ExternalRespondOrigin(h, ok)
    \/ \E h \in Handlers : ExternalConcludeFind(h)
    \/ \E h \in Handlers : ExternalConcludeSave(h)
    \/ \E h \in Handlers : ExternalConcludeEdit(h)
    \/ \E h \in Handlers : ExternalConcludeServer(h)
    \/ \E h \in Handlers, reachable \in BOOLEAN : ExternalConcludeFetch(h, reachable)
    \/ \E h \in Handlers, ok \in BOOLEAN : ExternalConcludeOrigin(h, ok)

SpecFault == InitStored /\ [][NextFault]_vars

\* Button presses and form submissions carrying intact and damaged control
\* ids, on internal and external requests, the handlers overlapping at their
\* awaits.
NextIds ==
    \/ \E g \in FilingGuilds : FileStart(g, "c1", {})
    \/ FileSecurityRole
    \/ FileFind
    \/ FileTouchFind(TRUE)
    \/ FileTouchSave(TRUE)
    \/ FileConfirm(TRUE)
    \/ FileAlert(TRUE)
    \/ FileStore(TRUE)
    \/ \E k \in Commands : RequestSecurity(k, TRUE)
    \/ \E k \in Commands : RequestSecurityRole(k)
    \/ \E k \in Commands : RequestAlertChannel(k)
    \/ \E k \in Commands : RequestSend(k, TRUE)
    \/ \E h \in Handlers, msg \in RequestIds :
         \E parts \in ButtonIds(msg) : PressControl(h, "a1", msg, parts, TRUE)
    \/ \E h \in Handlers, msg \in RequestIds :
         \E parts \in ModalIds(msg) : SubmitControl(h, "a1", msg, parts, "resolved", TRUE)
    \/ \E h \in Handlers : ButtonGate(h)
    \/ \E h \in Handlers : ShowModal(h)
    \/ \E h \in Handlers : ExternalRespondFind(h)
    \/ \E h \in Handlers : ExternalRespondSave(h)
    \/ \E h \in Handlers : ExternalRespondEdit(h)
    \/ \E h \in Handlers : ExternalRespondServer(h)
    \/ \E h \in Handlers : ExternalRespondFetch(h, TRUE)
    \/ \E h \in Handlers : ExternalRespondOrigin(h, TRUE)
    \/ \E h \in Handlers : InternalRespondEdit(h)
    \/ \E h \in Handlers : ExternalConcludeFind(h)
    \/ \E h \in Handlers : ExternalConcludeSave(h)
    \/ \E h \in Handlers : ExternalConcludeEdit(h)
    \/ \E h \in Handlers : ExternalConcludeServer(h)
    \/ \E h \in Handlers : ExternalConcludeFetch(h, TRUE)
    \/ \E h \in Handlers : ExternalConcludeOrigin(h, TRUE)
    \/ \E h \in Handlers : InternalConcludeEdit(h)

SpecIds == InitStored /\ [][NextIds]_vars

\* The filing command against the registry: registration, the allow-list
\* command and filings from either channel by members with and without the
\* listed role, all overlapping at their awaits.
NextRegistry ==
    \/ \E k \in Commands, g \in FilingGuilds, ch \in Channels : SetupSecurityChannel(k, g, ch)
    \/ \E k \in Commands : SetupSecurityChannelSave(k)
    \/ \E k \in Commands : SetupSecurityChannelCreate(k)
    \/ \E k \in Commands, g \in FilingGuilds, s \in RoleCommands, role \in GuildRoles :
         SetRequiredRoles(k, g, s, role)
    \/ \E k \in Commands : SetRequiredRolesSave(k)
    \/ \E g \in FilingGuilds, ch \in Channels, roles \in SUBSET GuildRoles :
         FileStart(g, ch, roles)
    \/ FileSecurityRole
    \/ FileFind
    \/ FileTouchFind(TRUE)
    \/ FileTouchSave(TRUE)
    \/ FileConfirm(TRUE)
    \/ FileAlert(TRUE)
    \/ FileStore(TRUE)

SpecRegistry == InitStored /\ [][NextRegistry]_vars

\* Filings beside the activity pass: the clock, the scheduled pass and the
\* filing command overlap at their awaits.
NextActivity ==
    \/ Tick
    \/ \E list \in Orderings(inactiveServers) : SweepFind(list)
    \/ SweepSave
    \/ SweepCountActive
    \/ SweepCountInactive
    \/ \E g \in FilingGuilds : FileStart(g, "c1", {})
    \/ FileSecurityRole
    \/ FileFind
    \/ FileTouchFind(TRUE)
    \/ FileTouchSave(TRUE)
    \/ FileConfirm(TRUE)
    \/ FileAlert(TRUE)
    \/ FileStore(TRUE)

SpecActivity == InitStored /\ [][NextActivity]_vars

\* The filing command with database calls, sends and the ledger write that
\* may fail, while the clock moves.
NextFileFault ==
    \/ Tick
    \/ \E g \in FilingGuilds, ch \in Channels : FileStart(g, ch, {})
    \/ FileSecurityRole
    \/ FileFind
    \/ \E ok \in BOOLEAN : FileTouchFind(ok)
    \/ \E ok \in BOOLEAN : FileTouchSave(ok)
    \/ \E ok \in BOOLEAN : FileConfirm(ok)
    \/ \E ok \in BOOLEAN : FileAlert(ok)
    \/ \E ok \in BOOLEAN : FileStore(ok)

SpecFileFault == InitStored /\ [][NextFileFault]_vars

\* The activity sweeper over several registrations: registration of every
\* customer server and the clock go on beside the scheduled pass.
NextSweep ==
    \/ Tick
    \/ \E k \in Commands, g \in Guilds : SetupSecurityChannel(k, g, "c1")
    \/ \E k \in Commands : SetupSecurityChannelSave(k)
    \/ \E k \in Commands : SetupSecurityChannelCreate(k)
    \/ \E list \in Orderings(inactiveServers) : SweepFind(list)
    \/ SweepSave
    \/ SweepCountActive
    \/ SweepCountInactive

SpecSweep == InitStored /\ [][NextSweep]_vars

\* The configuration store alone: the callers of updateServerConfig, their
\* database calls interleaving.
NextConfig ==
    \/ \E k \in Commands, configData \in ConfigPartials : UpdateServerConfig(k, configData)
    \/ \E k \in Commands : ConfigFindOrCreate(k)
    \/ \E k \in Commands : ConfigUpdate(k)

SpecConfig == Init /\ [][NextConfig]_vars

\* The registry under activity touches: markServerActive is called for a
\* registered and for an unregistered server while the clock moves and the
\* scheduled pass runs.
NextTouch ==
    \/ Tick
    \/ \E k \in Commands, g \in Guilds : MarkServerActive(k, g, TRUE)
    \/ \E k \in Commands : MarkServerActiveSave(k, TRUE)
    \/ \E list \in Orderings(inactiveServers) : SweepFind(list)
    \/ SweepSave
    \/ SweepCountActive
    \/ SweepCountInactive

SpecTouch == InitStored /\ [][NextTouch]_vars

\* The registry with its writers overlapping: registrations and the database
\* calls of activity touches fall between the query, the saves and the counts
\* of a scheduled pass.
NextRace ==
    \/ Tick
    \/ \E k \in Commands, g \in FilingGuilds, ch \in Channels : SetupSecurityChannel(k, g, ch)
    \/ \E k \in Commands : SetupSecurityChannelSave(k)
    \/ \E k \in Commands : SetupSecurityChannelCreate(k)
    \/ \E k \in Commands, g \in FilingGuilds : MarkServerActive(k, g, TRUE)
    \/ \E k \in Commands : MarkServerActiveSave(k, TRUE)
    \/ \E list \in Orderings(inactiveServers) : SweepFind(list)
    \/ SweepSave
    \/ SweepCountActive
    \/ SweepCountInactive

SpecRace == Init /\ [][NextRace]_vars

\* The restrictions of a server under registration, re-registration, every
\* allow-list subcommand and the blacklist command, the database calls of the
\* commands interleaving.
NextRoles ==
    \/ \E k \in Commands, g \in FilingGuilds : SetupSecurityChannel(k, g, "c1")
    \/ \E k \in Commands : SetupSecurityChannelSave(k)
    \/ \E k \in Commands : SetupSecurityChannelCreate(k)
    \/ \E k \in Commands, g \in FilingGuilds, s \in RoleCommands, role \in ListedRoles :
         SetRequiredRoles(k, g, s, role)
    \/ \E k \in Commands : SetRequiredRolesSave(k)
    \/ \E k \in Commands, g \in FilingGuilds, s \in BlacklistCommands, owner \in BOOLEAN :
         ManageBlacklist(k, g, s, owner)
    \/ \E k \in Commands : ManageBlacklistCall(k)
    \/ \E k \in Commands : ManageBlacklistDenied(k)

SpecRoles == InitStored /\ [][NextRoles]_vars

\* The schedule of the activity pass: database calls of a pass may reject,
\* registrations go on beside it.  The timer is delivered and
\* every awaited call settles.
NextSchedule ==
    \/ Tick
    \/ \E g \in Guilds : SetupSecurityChannel(1, g, "c1")
    \/ SetupSecurityChannelSave(1)
    \/ SetupSecurityChannelCreate(1)
    \/ \E list \in Orderings(inactiveServers) : SweepFind(list)
    \/ SweepFindThrow
    \/ SweepSave
    \/ SweepCountActive
    \/ SweepCountInactive
    \/ SweepThrow
    \/ SweepCatch

SpecSchedule ==
    /\ Init
    /\ [][NextSchedule]_vars
    /\ WF_vars((\E list \in Orderings(inactiveServers) : SweepFind(list)) \/ SweepFindThrow)
    /\ WF_vars(SweepSave \/ SweepCountActive \/ SweepCountInactive \/ SweepThrow)
    /\ WF_vars(SweepCatch)

(* ------------------------------ properties ---------------------------- *)

\* C1: the status of a ledger entry only moves forward along pending ->
\* responding -> concluded; no step of any handler, in any interleaving, sets
\* it back to an earlier value.
C1_StatusMovesForward ==
    [][\A r \in RequestIds :
         LET rank == [st \in {"none", "pending", "responding", "concluded"} |->
                        CASE st = "none" -> 0
                          [] st = "pending" -> 1
                          [] st = "responding" -> 2
                          [] st = "concluded" -> 3]
         IN rank[requests'[r].status] >= rank[requests[r].status]]_vars

\* C2: Respond is idempotent per member: a Respond handler that reads a
\* ledger entry already listing its member stops there with "already
\* responding" and writes nothing; no Respond handler saves the entry of a
\* request whose stored list already holds its member; and a member who has
\* been told that they are responding to a request is not told so again for
\* a later press on that request.
C2_RespondIdempotent ==
    [][\A h \in Handlers :
         LET t == task[h] IN
         /\ (/\ ExternalRespondFind(h)
             /\ requests[t.rid].exists
             /\ Includes(currentResponders(requests[t.rid]), t.actor))
            => /\ requests' = requests
               /\ alertMsg' = alertMsg
               /\ originMsg' = originMsg
               /\ task'[h].pc = "idle"
               /\ outcome'[t.actor] =
                    [kind |-> "respond", rid |-> t.rid,
                     result |-> "already_responding"]
         /\ ExternalRespondSave(h)
            => ~Includes(currentResponders(requests[t.rid]), t.actor)
         /\ (/\ t.kind = "respond"
             /\ t.pc # "idle"
             /\ task'[h].pc = "idle"
             /\ outcome[t.actor].kind = "respond"
             /\ outcome[t.actor].rid = t.rid
             /\ outcome[t.actor].result \in {"responding", "responding_notified"})
            => outcome'[t.actor].result \notin {"responding", "responding_notified"}]_vars

\* C3: once a ledger entry is concluded, no later step changes its
\* conclusionReason, concludedById, concludedByName or concludedAt.
C3_ConcludeTerminal ==
    [][\A r \in RequestIds :
         requests[r].status = "concluded"
         => /\ requests'[r].conclusionReason = requests[r].conclusionReason
            /\ requests'[r].concludedById = requests[r].concludedById
            /\ requests'[r].concludedByName = requests[r].concludedByName
            /\ requests'[r].concludedAt = requests[r].concludedAt]_vars

\* C4: when every member's last handler was a Respond on the same request that
\* reported success and none is still running, the ledger's responders list
\* contains every one of them.
C4_ConcurrentRespondersKept ==
    \A r \in RequestIds :
        (/\ \A h \in Handlers : task[h].pc = "idle"
         /\ \A a \in Actors :
              /\ outcome[a].kind = "respond"
              /\ outcome[a].rid = r
              /\ outcome[a].result \in {"responding", "responding_notified"})
        => \A a \in Actors : Includes(currentResponders(requests[r]), a)

\* C5: a filing whose read of the registry finds no registration, or a
\* registered channel other than the one it was issued in, or a non-empty
\* allow-list of which the member holds no role, ends rejected in that step:
\* no id is consumed and the ledger, both views and the registry are
\* unchanged; the steps of the filing before that read write nothing either.
C5_RejectedWithoutEffect ==
    [][/\ (/\ FileFind
           /\ \/ ~servers[file.guild].exists
              \/ servers[file.guild].channelId # file.channel
              \/ /\ Len(servers[file.guild].allowedRoleIds.arr) > 0
                 /\ \A i \in 1..Len(servers[file.guild].allowedRoleIds.arr) :
                      servers[file.guild].allowedRoleIds.arr[i] \notin file.roles)
          => /\ file' = IdleFile
             /\ nextId' = nextId
             /\ requests' = requests
             /\ alertMsg' = alertMsg
             /\ originMsg' = originMsg
             /\ servers' = servers
             /\ outcome'[Requester].kind = "file"
             /\ outcome'[Requester].result \in
                  {"not_registered", "wrong_channel", "no_role"}
       /\ (file' # file /\ file.pc \in {"idle", "securityRole"})
          => /\ nextId' = nextId
             /\ requests' = requests
             /\ alertMsg' = alertMsg
             /\ originMsg' = originMsg
             /\ servers' = servers]_vars

\* C5 witness: a member holding no allowed role was turned away in the
\* registered channel of a configured, registered server; nothing was stored.
C5_Witness ==
    /\ outcome[Requester] = [kind |-> "file", rid |-> 0, result |-> "no_role"]
    /\ file.pc = "idle"
    /\ \E g \in Guilds : servers[g].exists /\ Len(servers[g].allowedRoleIds.arr) > 0
    /\ \A r \in RequestIds : ~requests[r].exists /\ ~alertMsg[r].exists /\ ~originMsg[r].exists

\* C7: no step of the handler of a reason form submitted by a member who did
\* not hold the security role at submission changes the ledger or either
\* view.
C7_SubmitAuthorized ==
    [][\A h \in Handlers :
         (task[h].kind = "submit" /\ ~task[h].held /\ task'[h] # task[h])
         => /\ requests' = requests
            /\ alertMsg' = alertMsg
            /\ originMsg' = originMsg]_vars

\* C8: a Respond or Conclude button pressed by a member who does not hold the
\* security role, or found at the gate with no security role configured, ends
\* at the gate: the handler stops, no reason form opens, the ledger and both
\* views are unchanged and the member is told why; the press itself changes
\* none of them either.
C8_ButtonGateRejects ==
    [][\A h \in Handlers :
         /\ (/\ ButtonGate(h)
             /\ task[h].kind \in {"respond", "conclude"}
             /\ ~task[h].held \/ config.securityRoleId = Null)
            => /\ task'[h] = IdleTask
               /\ prompts' = prompts
               /\ requests' = requests
               /\ alertMsg' = alertMsg
               /\ originMsg' = originMsg
               /\ outcome'[task[h].actor].result \in {"not_configured", "no_permission"}
         /\ (task[h].pc = "idle" /\ task'[h].pc = "gate")
            => /\ prompts' = prompts
               /\ requests' = requests
               /\ alertMsg' = alertMsg
               /\ originMsg' = originMsg]_vars

\* C8 witness: with a security role configured and an external request on
\* file, a member without the role pressed a button and was refused.
C8_Witness ==
    \E a \in Actors :
        /\ outcome[a].result = "no_permission"
        /\ outcome[a].rid = 1
        /\ requests[1].exists
        /\ alertMsg[1].controls
        /\ \A h \in Handlers : task[h].pc = "idle"
        /\ <<a, 1>> \notin prompts

\* C9: in the state a successful filing ends in, the ledger entry of its id is
\* external, pending, names the origin server, carries both message
\* references, and its responders read back as the empty list.
C9_CreatedEntryReadsBack ==
    [][(file.pc = "store" /\ file'.pc = "idle")
         => /\ outcome'[Requester] = [kind |-> "file", rid |-> file.rid,
                                      result |-> "sent_successfully"]
            /\ requests'[file.rid].exists
            /\ requests'[file.rid].isExternal
            /\ requests'[file.rid].status = "pending"
            /\ currentResponders(requests'[file.rid]) = <<>>
            /\ requests'[file.rid].externalGuildId = {file.guild}
            /\ requests'[file.rid].externalMessageId # {}
            /\ requests'[file.rid].securityMessageId # {}]_vars

\* C9 witness: a filing has just ended with the success notice and its entry
\* is on file, pending.
C9_Witness ==
    /\ outcome[Requester] = [kind |-> "file", rid |-> 1, result |-> "sent_successfully"]
    /\ file.pc = "idle"
    /\ requests[1].exists
    /\ requests[1].status = "pending"
    /\ originMsg[1].exists
    /\ alertMsg[1].exists

\* C10: when a filing from a registered server ends with its ledger entry
\* written, the registration of that server is active and its lastAccessed is
\* the time the filing took for its activity touch, also when the sweeper
\* had demoted the server before.
C10_FilingReactivates ==
    [][FileStore(TRUE)
         => /\ servers'[file.guild].exists
            /\ servers'[file.guild].isActive
            /\ servers'[file.guild].lastAccessed = file.at]_vars

\* C11: in every reachable state, a ledger entry in status responding has a
\* non-empty responders list.
C11_RespondingHasResponders ==
    \A r \in RequestIds :
        requests[r].status = "responding"
        => Len(currentResponders(requests[r])) > 0

\* C11 witness: an entry is in status responding and lists a responder.
C11_Witness ==
    \E r \in RequestIds, a \in Actors :
        /\ requests[r].status = "responding"
        /\ Includes(currentResponders(requests[r]), a)

\* C12: in every reachable state, the four conclusion fields of a ledger entry
\* are all populated when its status is concluded and all absent when its
\* status is pending or responding.
C12_ConclusionFieldsMatchStatus ==
    \A r \in RequestIds :
        requests[r].exists =>
            /\ requests[r].status = "concluded" =>
                 /\ requests[r].conclusionReason # {}
                 /\ requests[r].concludedById # {}
                 /\ requests[r].concludedByName # {}
                 /\ requests[r].concludedAt # {}
            /\ requests[r].status \in {"pending", "responding"} =>
                 /\ requests[r].conclusionReason = {}
                 /\ requests[r].concludedById = {}
                 /\ requests[r].concludedByName = {}
                 /\ requests[r].concludedAt = {}

\* C13: the query of a sweeper pass selects exactly the registrations that
\* are active and last accessed strictly before now minus the threshold, each
\* save of the pass sets isActive to false on the next of them and changes
\* nothing else in the registry, and the pass returns the number it selected
\* with the active and inactive counts it reads after the saves.
C13_SweepDemotesExactlyStale ==
    [][/\ (sweep.pc = "idle" /\ sweep'.pc = "saving") =>
            /\ servers' = servers
            /\ {sweep'.list[i] : i \in 1..Len(sweep'.list)} =
                 {g \in Guilds : /\ servers[g].exists
                                 /\ servers[g].isActive
                                 /\ servers[g].lastAccessed < now - INACTIVITY_THRESHOLD_DAYS}
            /\ \A i, j \in 1..Len(sweep'.list) :
                 sweep'.list[i] = sweep'.list[j] => i = j
            /\ sweep'.updated = Len(sweep'.list)
       /\ SweepSave =>
            /\ servers' = [servers EXCEPT ![Head(sweep.list)].isActive = FALSE]
            /\ sweep'.list = Tail(sweep.list)
            /\ sweep'.updated = sweep.updated
       /\ SweepCountActive =>
            /\ servers' = servers
            /\ sweep.list = <<>>
            /\ sweep'.updated = sweep.updated
            /\ sweep'.active =
                 Cardinality({g \in Guilds : servers[g].exists /\ servers[g].isActive})
       /\ SweepCountInactive =>
            /\ servers' = servers
            /\ sweep'.pc = "idle"
            /\ sweep'.updated = sweep.updated
            /\ sweep'.active = sweep.active
            /\ sweep'.inactive =
                 Cardinality({g \in Guilds : servers[g].exists /\ ~servers[g].isActive})]_vars

\* C13 witness: a pass has returned having demoted one of two registrations;
\* the other, last accessed exactly at the cutoff, is still active.
C13_Witness ==
    /\ sweep = [pc |-> "idle", list |-> <<>>, updated |-> 1, active |-> 1,
                inactive |-> 1, timers |-> 1]
    /\ \E g, h \in Guilds :
          /\ servers[g].exists /\ ~servers[g].isActive
          /\ servers[g].lastAccessed < now - INACTIVITY_THRESHOLD_DAYS
          /\ servers[h].exists /\ servers[h].isActive
          /\ servers[h].lastAccessed = now - INACTIVITY_THRESHOLD_DAYS

\* C14: every save of a pass leaves the registration it was made for
\* inactive, so that a pass leaves none of the registrations it selected both
\* active and stale; and a pass that starts in a state where no registration
\* is active and stale selects nothing, reports zero demoted and leaves the
\* registry as it is in each of its steps.
C14_SecondSweepDemotesNone ==
    [][/\ SweepSave => ~servers'[Head(sweep.list)].isActive
       /\ (/\ sweep.pc = "idle" /\ sweep'.pc = "saving"
           /\ ~\E g \in Guilds :
                /\ servers[g].exists
                /\ servers[g].isActive
                /\ servers[g].lastAccessed < now - INACTIVITY_THRESHOLD_DAYS) =>
            /\ sweep'.updated = 0
            /\ sweep'.list = <<>>
            /\ servers' = servers
       /\ (sweep' # sweep /\ sweep.pc \in {"saving", "counting"} /\ sweep.updated = 0) =>
            servers' = servers]_vars

\* C14 witness: the last pass returned zero demoted although a registration
\* demoted by an earlier pass is still stale.
C14_Witness ==
    /\ sweep.pc = "idle"
    /\ sweep.updated = 0
    /\ sweep.inactive = 1
    /\ \E g \in Guilds :
          /\ servers[g].exists /\ ~servers[g].isActive
          /\ servers[g].lastAccessed < now - INACTIVITY_THRESHOLD_DAYS

\* C15: in the state a successful internal filing has produced, the ledger
\* holds an entry for the request's id that is internal, pending, without
\* responders and without external references.
C15_InternalEntryPersisted ==
    (/\ outcome[Requester].kind = "internal"
     /\ outcome[Requester].result = "sent_to_alert_channel")
    => /\ requests[outcome[Requester].rid].exists
       /\ ~requests[outcome[Requester].rid].isExternal
       /\ requests[outcome[Requester].rid].status = "pending"
       /\ currentResponders(requests[outcome[Requester].rid]) = <<>>
       /\ requests[outcome[Requester].rid].externalGuildId = {}
       /\ requests[outcome[Requester].rid].externalMessageId = {}

\* C16: an internal filing by a member without the customer role, or while
\* the customer role, the security role or the alert channel is not
\* configured, is rejected when its last configuration read returns: no alert
\* is rendered, no ledger entry is written and no request id is consumed; the
\* steps of the command before that read write nothing either.
C16_InternalRejected ==
    [][\A k \in Commands :
         /\ (/\ RequestAlertChannel(k)
             /\ \/ ~cmd[k].held
                \/ config.customerRoleId = {}
                \/ config.securityRoleId = {}
                \/ config.alertChannelId = {})
            => /\ cmd'[k] = IdleCmd
               /\ alertMsg' = alertMsg
               /\ requests' = requests
               /\ originMsg' = originMsg
               /\ nextId' = nextId
               /\ outcome'[Requester].kind = "internal"
               /\ outcome'[Requester].result \in {"not_configured", "no_permission"}
         /\ (/\ cmd'[k] # cmd[k]
             /\ cmd'[k].kind = "internal"
             /\ cmd'[k].pc \in {"securityRole", "alertChannel"})
            => /\ alertMsg' = alertMsg
               /\ requests' = requests
               /\ originMsg' = originMsg
               /\ nextId' = nextId]_vars

\* C16 witness: with the server fully configured, a member without the
\* customer role was refused and no alert exists.
C16_Witness ==
    /\ outcome[Requester] = [kind |-> "internal", rid |-> 0, result |-> "no_permission"]
    /\ \A k \in Commands : cmd[k].pc = "idle"
    /\ config.customerRoleId # {}
    /\ config.securityRoleId # {}
    /\ config.alertChannelId # {}
    /\ \A r \in RequestIds : ~alertMsg[r].exists /\ ~requests[r].exists

\* C17: when alert delivery fails during an external filing, the
\* confirmation is already in the origin channel, no alert exists, the
\* command ends there and the caller is told of the failure, not of success.
C17_AlertFailureReported ==
    [][FileAlert(FALSE)
         => /\ originMsg[file.rid].exists
            /\ originMsg' = originMsg
            /\ ~alertMsg'[file.rid].exists
            /\ file'.pc = "idle"
            /\ outcome'[Requester] = [kind |-> "file", rid |-> file.rid,
                                      result |-> "failed_to_send"]]_vars

\* C17 witness: a filing ended with the failure notice; its confirmation is
\* in the origin channel and no alert was delivered.
C17_Witness ==
    /\ outcome[Requester] = [kind |-> "file", rid |-> 1, result |-> "failed_to_send"]
    /\ file.pc = "idle"
    /\ originMsg[1].exists
    /\ ~alertMsg[1].exists

\* C18: after a filing whose alert delivery failed, the ledger holds an entry
\* for the request that carries the origin message reference.
C18_AlertFailureStillStored ==
    (/\ outcome[Requester].kind = "file"
     /\ outcome[Requester].result = "failed_to_send")
    => /\ requests[outcome[Requester].rid].exists
       /\ requests[outcome[Requester].rid].externalMessageId # {}

\* C19: when the ledger write fails after both views were delivered, the
\* result reported to the caller is neither a rejection or failure nor the
\* plain success notice.
C19_StoreFailureDegraded ==
    [][FileStore(FALSE)
         => outcome'[Requester].result \notin
              {"sent_successfully", "failed_to_send", "error", "not_configured",
               "not_registered", "wrong_channel", "no_role"}]_vars

\* C20: the save of a Respond handler, on a row no one wrote since the handler
\* read it, lists the member in status responding, and the save of a
\* conclusion marks it concluded with the submitted reason and member; no
\* later step of the handler writes the ledger; when the handler ends because
\* the registration, the guild, the channel or the message could not be
\* reached, or because the edit was refused, the origin message is as it was
\* and the member is told the update was partial, and success is reported
\* only with the origin message showing the handler's update.
C20_OriginFailureKeepsLedger ==
    [][\A h \in Handlers :
         LET t == task[h] IN
         /\ (ExternalRespondSave(h) /\ requests[t.rid] = t.snap) =>
              /\ requests'[t.rid].status = "responding"
              /\ Includes(currentResponders(requests'[t.rid]), t.actor)
         /\ (ExternalConcludeSave(h) /\ requests[t.rid] = t.snap) =>
              /\ requests'[t.rid].status = "concluded"
              /\ requests'[t.rid].conclusionReason = t.reason
              /\ requests'[t.rid].concludedById = {t.actor}
         /\ (/\ t.kind \in {"respond", "submit"}
             /\ t.pc \in {"edit", "server", "fetch", "origin"}
             /\ task'[h] # t) =>
              requests' = requests
         /\ (/\ t.kind = "respond"
             /\ t.pc \in {"server", "fetch"}
             /\ task'[h].pc = "idle") =>
              /\ originMsg' = originMsg
              /\ outcome'[t.actor].result \in
                   {"updated_but_error_notifying", "no_longer_registered"}
         /\ (/\ t.kind = "respond"
             /\ t.pc = "origin"
             /\ task'[h].pc = "idle") =>
              \/ /\ originMsg' = originMsg
                 /\ outcome'[t.actor].result = "updated_but_error_notifying"
              \/ /\ originMsg'[t.rid].status = "responding"
                 /\ originMsg'[t.rid].names = t.resps
                 /\ outcome'[t.actor].result = "responding_notified"
         /\ (/\ t.kind = "submit"
             /\ t.pc \in {"server", "fetch"}
             /\ task'[h].pc = "idle") =>
              /\ originMsg' = originMsg
              /\ outcome'[t.actor].result \in
                   {"concluded_but_error_updating", "no_longer_registered"}
         /\ (/\ t.kind = "submit"
             /\ t.pc = "origin"
             /\ task'[h].pc = "idle") =>
              \/ /\ originMsg' = originMsg
                 /\ outcome'[t.actor].result = "concluded_but_error_updating"
              \/ /\ originMsg'[t.rid].status = "completed"
                 /\ originMsg'[t.rid].conclusion = t.reason
                 /\ outcome'[t.actor].result = "concluded_notified"]_vars

\* C20 witness: a member was told the request was updated but the origin
\* server could not be notified, the server having registered another channel
\* since the filing; the ledger lists the member in status responding and the
\* origin message still shows the filing.
C20_Witness ==
    \E a \in Actors :
        /\ outcome[a] = [kind |-> "respond", rid |-> 1,
                         result |-> "updated_but_error_notifying"]
        /\ \A h \in Handlers : task[h].pc = "idle"
        /\ requests[1].status = "responding"
        /\ Includes(currentResponders(requests[1]), a)
        /\ originMsg[1].status = "sent"
        /\ servers[originGuild(requests[1])].channelId # originMsg[1].channel

\* C21: when the Respond handler of a member reads a ledger entry whose status
\* is concluded, it stops there: it prepares no write, leaves the ledger as it
\* is, and tells the member of an error, neither success nor "already
\* responding".
C21_RespondOnConcludedIsError ==
    [][\A h \in Handlers :
         (/\ ExternalRespondFind(h)
          /\ requests[task[h].rid].exists
          /\ requests[task[h].rid].status = "concluded")
         => /\ requests' = requests
            /\ task'[h].pc = "idle"
            /\ outcome'[task[h].actor].kind = "respond"
            /\ outcome'[task[h].actor].result \notin
                 {"responding", "responding_notified", "already_responding",
                  "updated_but_error_notifying"}]_vars

\* C22: once a member has been told that a request was concluded, the alert
\* of that request has no buttons, the origin message of an external request
\* shows the terminal status and has none either, and no later step changes
\* the ledger entry.
C22_ConcludedIsClosed ==
    [][\A r \in RequestIds :
         (\E a \in Actors :
             /\ \A h \in Handlers : task[h].actor # a
             /\ outcome[a].kind = "submit"
             /\ outcome[a].rid = r
             /\ outcome[a].result \in {"concluded", "concluded_notified"})
         => /\ ~alertMsg[r].controls
            /\ requests[r].isExternal =>
                 /\ originMsg[r].status = "completed"
                 /\ ~originMsg[r].controls
            /\ requests'[r] = requests[r]]_vars

\* C23: pressing Conclude, which passes the gate and opens the reason form,
\* writes nothing: the ledger and both views are the same after each step of
\* the press as before it, however many forms are already open.
C23_OpenPromptChangesNothing ==
    [][\A h \in Handlers :
         (/\ task'[h] # task[h]
          /\ task[h].kind = "conclude" \/ task'[h].kind = "conclude")
         => /\ requests' = requests
            /\ alertMsg' = alertMsg
            /\ originMsg' = originMsg]_vars

\* C23 witness: both members have a reason form open on a request that a
\* member responded to; the entry is still responding without a conclusion
\* and the alert still has its buttons.
C23_Witness ==
    /\ \A a \in Actors : <<a, 1>> \in prompts
    /\ \A h \in Handlers : task[h].pc = "idle"
    /\ \E a \in Actors : outcome[a] = [kind |-> "conclude", rid |-> 1,
                                       result |-> "modal_shown"]
    /\ requests[1].status = "responding"
    /\ requests[1].conclusionReason = {}
    /\ requests[1].concludedById = {}
    /\ alertMsg[1].controls
    /\ originMsg[1].status = "responding"

\* C24: a filing that ends rejected is told the reason of the first violated
\* precondition in the order registration missing, blacklisted, wrong
\* channel, no allowed role, organization not configured.
C24_FirstViolatedReason ==
    [][LET server == servers[file.guild]
           allowed == server.allowedRoleIds.arr
           first ==
             IF ~server.exists THEN "not_registered"
             ELSE IF server.isBlacklisted THEN "blacklisted"
             ELSE IF server.channelId # file.channel THEN "wrong_channel"
             ELSE IF /\ Len(allowed) > 0
                     /\ \A i \in 1..Len(allowed) : allowed[i] \notin file.roles
                  THEN "no_role"
             ELSE IF config.alertChannelId = {} \/ config.securityRoleId = {}
                  THEN "not_configured"
             ELSE "ok"
       IN (file.pc \in {"securityRole", "find"} /\ file'.pc = "idle")
          => outcome'[Requester] = [kind |-> "file", rid |-> 0, result |-> first]]_vars

\* C25: a button or form whose id has the wrong number of fields for its
\* kind (two for respond and conclude, three for extrespond and extconclude,
\* three and four for the forms) is taken as malformed and runs no handler: a
\* press is marked so at dispatch and ends at the gate, a submission ends at
\* dispatch, no form opens and neither the ledger nor a view changes.
C25_MalformedIdRejected ==
    [][\A h \in Handlers, a \in Actors, msg \in RequestIds, held \in BOOLEAN,
          reason \in Reasons :
         /\ \A parts \in ButtonIds(msg) :
              (/\ PressControl(h, a, msg, parts, held)
               /\ \/ parts[1] \in {"respond", "conclude"} /\ Len(parts) # 2
                  \/ parts[1] \in {"extrespond", "extconclude"} /\ Len(parts) # 3)
              => /\ task'[h].route = "invalid_format"
                 /\ prompts' = prompts
                 /\ requests' = requests
                 /\ alertMsg' = alertMsg
                 /\ originMsg' = originMsg
         /\ (ButtonGate(h) /\ task[h].route = "invalid_format")
              => /\ task'[h] = IdleTask
                 /\ prompts' = prompts
                 /\ requests' = requests
                 /\ alertMsg' = alertMsg
                 /\ originMsg' = originMsg
         /\ \A parts \in ModalIds(msg) :
              (/\ SubmitControl(h, a, msg, parts, reason, held)
               /\ \/ parts[1] = "conclude" /\ Len(parts) # 3
                  \/ parts[1] = "extconclude" /\ Len(parts) # 4)
              => /\ task' = task
                 /\ requests' = requests
                 /\ alertMsg' = alertMsg
                 /\ originMsg' = originMsg]_vars

\* C26: a Respond handler or the handler of a submitted reason form working
\* on a request id without a ledger entry writes no ledger entry and edits
\* neither view, and when it ends past the gate it ends with the not-found
\* reply.
C26_UnknownRequestNotFound ==
    [][\A h \in Handlers :
         (/\ task[h].kind \in {"respond", "submit"}
          /\ task[h].pc # "idle"
          /\ ~requests[task[h].rid].exists
          /\ task'[h] # task[h])
         => /\ requests' = requests
            /\ alertMsg' = alertMsg
            /\ originMsg' = originMsg
            /\ (task[h].pc # "gate" /\ task'[h].pc = "idle") =>
                 outcome'[task[h].actor] =
                   [kind |-> task[h].kind, rid |-> task[h].rid,
                    result |-> "not_found"]]_vars

\* C27: the responders of a ledger entry never hold an identifier twice, and
\* every step leaves the list as it was or extends it at the end: no step
\* removes or reorders an identifier.
C27_RespondersOnlyGrow ==
    [][\A r \in RequestIds :
         LET old == currentResponders(requests[r])
             new == currentResponders(requests'[r])
         IN /\ Len(new) >= Len(old)
            /\ SubSeq(new, 1, Len(old)) = old
            /\ \A i, j \in 1..Len(new) : new[i] = new[j] => i = j]_vars

\* C28: when a member holding the security role submits the reason form for
\* a request that is pending with no responders, the save sets status to
\* concluded together with the reason, the member's id and name and the time
\* of the submission, leaves the responders empty, and the handler ends
\* reporting the conclusion.
C28_ConcludeFromPending ==
    [][\A h \in Handlers :
         LET r == task[h].rid
             a == task[h].actor
         IN
         /\ (/\ ExternalConcludeSave(h)
             /\ task[h].held
             /\ requests[r].status = "pending"
             /\ currentResponders(requests[r]) = <<>>)
            => /\ requests'[r].status = "concluded"
               /\ requests'[r].conclusionReason = task[h].reason
               /\ requests'[r].conclusionReason # {}
               /\ requests'[r].concludedById = {a}
               /\ requests'[r].concludedByName = {a}
               /\ requests'[r].concludedAt = {task[h].at}
               /\ currentResponders(requests'[r]) = <<>>
         /\ (/\ task[h].kind = "submit"
             /\ task[h].pc \in {"edit", "server", "fetch", "origin"}
             /\ task[h].snap.status = "pending"
             /\ task'[h].pc = "idle")
            => outcome'[a] = [kind |-> "submit", rid |-> r,
                              result |-> "concluded_notified"]]_vars

\* C28 witness: a member has been told that the request was concluded; its
\* entry is concluded with all four conclusion fields set and still has no
\* responder.
C28_Witness ==
    \E a \in Actors :
        /\ outcome[a] = [kind |-> "submit", rid |-> 1, result |-> "concluded_notified"]
        /\ \A h \in Handlers : task[h].pc = "idle"
        /\ requests[1].status = "concluded"
        /\ requests[1].conclusionReason # {}
        /\ requests[1].concludedById = {a}
        /\ requests[1].concludedByName = {a}
        /\ requests[1].concludedAt # {}
        /\ currentResponders(requests[1]) = <<>>
        /\ alertMsg[1].responders = <<>>

\* C29: a configuration write that completes leaves a configuration in which
\* every supplied field holds the supplied value and every field it does not
\* name holds the value it had before the completing step (absent on
\* creation); an existing configuration stays.
C29_ConfigUpsertFrame ==
    [][/\ \A k \in Commands :
            (cmd[k].kind = "update" /\ cmd[k].pc # "idle" /\ cmd'[k].pc = "idle")
            => /\ config'.exists
               /\ \A f \in DOMAIN cmd[k].data :
                    /\ f \in DOMAIN config'
                    /\ config'[f] = cmd[k].data[f]
               /\ \A f \in (DOMAIN config \ {"exists"}) \ DOMAIN cmd[k].data :
                    config'[f] = IF config.exists THEN config[f] ELSE Null
       /\ config.exists => config'.exists]_vars

\* C30: markServerActive on a server without registration returns false at
\* its read and leaves the registry as it is; on a registered server its read
\* writes nothing and its save returns true, leaves lastAccessed at the time
\* the call took and isActive true, and changes no other field of that
\* registration nor any other registration.
C30_TouchActivity ==
    [][\A k \in Commands :
         /\ \A g \in Guilds :
              MarkServerActive(k, g, TRUE)
              => /\ servers' = servers
                 /\ IF ~servers[g].exists
                    THEN /\ cmd' = cmd
                         /\ outcome'[Requester] =
                              [kind |-> "touch", rid |-> 0, result |-> "false"]
                    ELSE /\ cmd'[k].pc = "save"
                         /\ cmd'[k].at = now
                         /\ outcome' = outcome
         /\ MarkServerActiveSave(k, TRUE)
              => LET g == cmd[k].guild IN
                 /\ servers[g].exists
                 /\ \A h \in Guilds \ {g} : servers'[h] = servers[h]
                 /\ \A f \in DOMAIN NoServer \ {"lastAccessed", "isActive"} :
                      servers'[g][f] = servers[g][f]
                 /\ servers'[g].lastAccessed = cmd[k].at
                 /\ servers'[g].isActive
                 /\ outcome'[Requester] =
                      [kind |-> "touch", rid |-> 0, result |-> "true"]]_vars

\* C31: every registration command that ends, also one that overlaps other
\* registrations of its server or a pass of the sweeper, leaves the
\* registration of its server present with the channel and name it supplied,
\* active, with lastAccessed at the time it took, and leaves every other
\* registration as it was.
C31_RegisterUpsert ==
    [][\A k \in Commands :
         (SetupSecurityChannelSave(k) \/ SetupSecurityChannelCreate(k))
         => LET g == cmd[k].guild IN
            /\ servers'[g].exists
            /\ servers'[g].channelId = cmd[k].channel
            /\ servers'[g].guildName = Some(g)
            /\ servers'[g].isActive
            /\ servers'[g].lastAccessed = cmd[k].at
            /\ \A h \in Guilds \ {g} : servers'[h] = servers[h]]_vars

\* C32: adding a role that is on the allow-list, or removing one that is
\* not, is answered with the no-op notice when the list has been read, and
\* leaves the registry as it is without a save; after every step no
\* allow-list holds a role twice.
C32_AllowListNoOp ==
    [][/\ \A k \in Commands, g \in Guilds, role \in ListedRoles :
            LET list == ColumnGet(servers[g].allowedRoleIds).arr
                listed == \E i \in 1..Len(list) : list[i] = role
            IN /\ (SetRequiredRoles(k, g, "add", role) /\ servers[g].exists /\ listed)
                  => /\ servers' = servers
                     /\ cmd' = cmd
                     /\ outcome'[Requester] = [kind |-> "roles", rid |-> 0,
                                               result |-> "already_authorized"]
               /\ (SetRequiredRoles(k, g, "remove", role) /\ servers[g].exists /\ ~listed)
                  => /\ servers' = servers
                     /\ cmd' = cmd
                     /\ outcome'[Requester] = [kind |-> "roles", rid |-> 0,
                                               result |-> "not_in_list"]
       /\ \A g \in Guilds :
            LET list == ColumnGet(servers'[g].allowedRoleIds).arr
            IN \A i, j \in 1..Len(list) : list[i] = list[j] => i = j]_vars

\* C32 witness: the last allow-list command was answered "already
\* authorized" and a server's allow-list holds both roles, once each.
C32_Witness ==
    /\ outcome[Requester] = [kind |-> "roles", rid |-> 0, result |-> "already_authorized"]
    /\ \A k \in Commands : cmd[k].pc = "idle"
    /\ \E g \in Guilds :
          /\ servers[g].exists
          /\ ColumnGet(servers[g].allowedRoleIds).arr = <<"role2", "role1">>

\* C33: every pass of the activity sweep, whether it returns its statistics
\* or throws, leaves exactly one timer armed for the next pass, and a pass is
\* started again and again: a pass in progress has no timer pending, a
\* resting schedule has exactly one, and the schedule never stays at rest.
C33_SweepRescheduled ==
    /\ [](sweep.timers = IF sweep.pc = "idle" THEN 1 ELSE 0)
    /\ [][sweep.pc # "idle" /\ sweep'.pc = "idle" => sweep'.timers = 1]_vars
    /\ []<>(sweep.pc # "idle")
    /\ []<>(sweep.pc = "idle")

\* C33 witness: a pass that set a registration inactive and then threw has
\* been caught and the next pass is armed.
C33_Witness ==
    /\ sweep.pc = "idle"
    /\ sweep.timers = 1
    /\ sweep.updated = 1
    /\ sweep.active = 0
    /\ sweep.inactive = 0
    /\ \E g \in Guilds : servers[g].exists /\ ~servers[g].isActive

\* C34: a registration goes from active to inactive only in a save of the
\* activity pass, and only while its lastAccessed is older than the
\* threshold; no command and no request sets isActive to false.
C34_OnlySweepDeactivatesStale ==
    [][\A g \in Guilds :
         (servers[g].exists /\ servers[g].isActive /\ ~servers'[g].isActive)
            => /\ SweepSave
               /\ g = Head(sweep.list)
               /\ servers[g].lastAccessed < cutoffDate]_vars

\* C35: once the activity pass and the touches beside it have completed, no
\* registration last accessed within the inactivity threshold is inactive.
C35_FreshRegistrationActive ==
    (sweep.pc = "idle" /\ \A k \in Commands : cmd[k].pc = "idle") =>
        \A g \in Guilds :
            (servers[g].exists /\ servers[g].lastAccessed >= cutoffDate)
                => servers[g].isActive

\* C36: when no Respond handler is in flight on an external request that is
\* not concluded, the responders shown in the organization alert are the
\* responders of the ledger row, in the same order.
C36_AlertShowsLedgerResponders ==
    \A rid \in RequestIds :
        (/\ requests[rid].exists
         /\ requests[rid].isExternal
         /\ requests[rid].status # "concluded"
         /\ alertMsg[rid].exists
         /\ alertMsg[rid].controls
         /\ \A h \in Handlers : task[h].pc = "idle" \/ task[h].rid # rid)
            => alertMsg[rid].responders = currentResponders(requests[rid])

\* C37: no step removes a ledger row or changes its identity and content
\* attributes or its two message references; the save of Respond changes
\* nothing but responders and status, the save of Conclude nothing but status
\* and the four conclusion attributes, each on the row of its own request.
C37_RespondConcludeFrame ==
    [][/\ \A rid \in RequestIds :
            requests[rid].exists
               => /\ requests'[rid].exists
                  /\ \A f \in {"requestId", "isExternal", "requesterId",
                              "requesterName", "location", "details",
                              "contact", "externalGuildId",
                              "externalMessageId", "securityMessageId"} :
                        requests'[rid][f] = requests[rid][f]
       /\ \A h \in Handlers :
            ExternalRespondSave(h)
               => /\ \A rid \in RequestIds \ {task[h].rid} :
                        requests'[rid] = requests[rid]
                  /\ \A f \in DOMAIN NoRow \ {"responders", "status"} :
                        requests'[task[h].rid][f] = requests[task[h].rid][f]
       /\ \A h \in Handlers :
            ExternalConcludeSave(h)
               => /\ \A rid \in RequestIds \ {task[h].rid} :
                        requests'[rid] = requests[rid]
                  /\ \A f \in DOMAIN NoRow \
                             {"status", "conclusionReason", "concludedById",
                              "concludedByName", "concludedAt"} :
                        requests'[task[h].rid][f] = requests[task[h].rid][f]]_vars

\* C37 witness: a row that was responded to after its conclusion was saved:
\* it keeps what the filing stored, the conclusion attributes and a
\* responder.
C37_Witness ==
    \E rid \in RequestIds :
        /\ requests[rid].exists
        /\ requests[rid].requestId = rid
        /\ requests[rid].requesterName = Some(Requester)
        /\ Populated(requests[rid].securityMessageId)
        /\ Populated(requests[rid].conclusionReason)
        /\ Populated(requests[rid].concludedAt)
        /\ requests[rid].status = "responding"
        /\ currentResponders(requests[rid]) # <<>>

\* C38: /setup-security-channel run for a server that is already registered
\* leaves isBlacklisted, blacklistReason and allowedRoleIds of its row as
\* they were: its save writes none of them, and a create that finds the row
\* present writes nothing.
C38_ReRegisterKeepsRestrictions ==
    [][\A k \in Commands :
         LET g == cmd[k].guild IN
         /\ SetupSecurityChannelSave(k)
            => /\ servers[g].exists
               /\ servers'[g].isBlacklisted = servers[g].isBlacklisted
               /\ servers'[g].blacklistReason = servers[g].blacklistReason
               /\ servers'[g].allowedRoleIds = servers[g].allowedRoleIds
         /\ (SetupSecurityChannelCreate(k) /\ servers[g].exists)
            => servers' = servers]_vars

\* C38 witness: a registration whose allow-list names a role has been
\* registered again in another channel and its administrator was told of the
\* update: the allow-list still names the role.
C38_Witness ==
    \E g \in Guilds :
        /\ outcome[Admin] = [kind |-> "setup", rid |-> 0, result |-> "updated"]
        /\ \A k \in Commands : cmd[k].pc = "idle"
        /\ servers[g].exists
        /\ servers[g].channelId = Some("c2")
        /\ ~servers[g].isBlacklisted
        /\ ColumnGet(servers[g].allowedRoleIds).arr # <<>>

\* C39: when the filing command ends because the alert could not be
\* delivered to the organization server, the registration of the calling
\* server is the row the command found when it began.
C39_FailedDeliveryKeepsRegistration ==
    [][FileAlert(FALSE) => servers'[file.guild] = file.server]_vars

====
